---- MODULE Spec2Model ----
(***************************************************************************)
(* Model of the nft_market_go backend: the orders table and its upsert,    *)
(* the marketplace scanner (event handlers and the live poll loop) and the *)
(* Redis lock.                                                             *)
(*                                                                         *)
(* Modelling conventions                                                   *)
(*  - the orders table is a set of rows; created_at / updated_at are wall  *)
(*    clock values and are not modelled;                                   *)
(*  - Go strings are TLA+ strings, "" is the empty string;                 *)
(*  - a database or network call that can fail takes its outcome as an     *)
(*    input (io record), chosen by the environment.                        *)
(***************************************************************************)
EXTENDS Integers, Sequences, FiniteSets, TLC

VARIABLES
    orders,       \* the rows of the MySQL table `orders`
    last,         \* the last call made: its input and its result
    redis,        \* the Redis keys of the locker: full key -> value or NoKey
    handles,      \* the RedisLock values returned by Acquire so far
    held,         \* per handle: "held", "released" or "expired"
    issued,       \* how many lock values randomLockValue has produced
    runPc,        \* where Run is: "init", "wait", "batch", "returned"
    ctxDone,      \* whether Run's context is cancelled
    lastScanned,  \* Run's watermark
    latest,       \* the head read at the current tick
    from,         \* first block of the next sub-range
    batchSize,    \* current sub-range size
    live,         \* history of the live loop: block -> "ok" (covered by a
                  \* FilterLogs call that succeeded) or "skipped"
    rs,           \* the ResyncRecent call in progress, if any
    assets,       \* the rows of the MySQL table `nft_assets`
    api,          \* the API requests: request -> where it is and what it holds
    hl            \* the scanner handler that has read and not yet written

lockVars == <<redis, handles, held, issued>>
runVars == <<runPc, ctxDone, lastScanned, latest, from, batchSize, live>>
apiVars == <<assets, api, hl>>
vars == <<orders, last, redis, handles, held, issued,
          runPc, ctxDone, lastScanned, latest, from, batchSize, live, rs,
          assets, api, hl>>

(***************************************************************************)
(* Bounds of the model.                                                    *)
(***************************************************************************)
MaxListing == 2

Listings == 1..MaxListing

\* transaction hashes of the logs (common.Hash values)
Hashes == {"t1", "t2"}

\* 32-byte topics carrying addresses
SellerTopics == {"AA"}
BuyerTopics == {"BB"}
NftTopics == {"NFT"}

\* Listed prices (wei)
Prices == {1000}

(***************************************************************************)
(* OrderStatus, internal/store/order_store.go                              *)
(***************************************************************************)
OrderStatusInit == "INIT"
OrderStatusListed == "LISTED"
OrderStatusLocked == "LOCKED"
OrderStatusSettling == "SETTLING"
OrderStatusSuccess == "SUCCESS"
OrderStatusFailed == "FAILED"
OrderStatusCanceled == "CANCELED"

OrderStatus ==
    {OrderStatusInit, OrderStatusListed, OrderStatusLocked, OrderStatusSettling,
     OrderStatusSuccess, OrderStatusFailed, OrderStatusCanceled}

Terminal == {OrderStatusSuccess, OrderStatusCanceled}

\* The Go zero value of store.Order with the given listing id.
Order(listingID) ==
    [ListingID |-> listingID, Seller |-> "", Buyer |-> "", NFTName |-> "",
     NFTAddress |-> "", URL |-> "", TokenID |-> 0, Amount |-> 0, Price |-> "",
     Status |-> "", TxHash |-> "", Deleted |-> 0]

(***************************************************************************)
(* The orders table.                                                       *)
(***************************************************************************)
\* price DECIMAL(36,0) NOT NULL: the stored value of a decimal string. The
\* empty string is stored as 0 (the server's conversion of a non-numeric
\* string); a canonical decimal string of at most 36 digits is stored as is.
DecimalColumn(s) == IF s = "" THEN "0" ELSE s

\* order_id BIGINT NOT NULL AUTO_INCREMENT
NextOrderID(tbl) ==
    IF tbl = {} THEN 1
    ELSE 1 + (CHOOSE m \in {r.order_id : r \in tbl} :
                  \A r \in tbl : r.order_id <= m)

\* The column values the INSERT of upsertOrder supplies.
RowValues(o) ==
    [listing_id |-> o.ListingID, seller |-> o.Seller, buyer |-> o.Buyer,
     nft_name |-> o.NFTName, nft_address |-> o.NFTAddress, url |-> o.URL,
     token_id |-> o.TokenID, amount |-> o.Amount,
     price |-> DecimalColumn(o.Price), status |-> o.Status,
     tx_hash |-> o.TxHash, deleted |-> o.Deleted]

WithOrderID(v, id) ==
    [order_id |-> id, listing_id |-> v.listing_id, seller |-> v.seller,
     buyer |-> v.buyer, nft_name |-> v.nft_name, nft_address |-> v.nft_address,
     url |-> v.url, token_id |-> v.token_id, amount |-> v.amount,
     price |-> v.price, status |-> v.status, tx_hash |-> v.tx_hash,
     deleted |-> v.deleted]

\* ON DUPLICATE KEY UPDATE: every column of the list is overwritten;
\* order_id and listing_id are not in the list and keep the old row's values.
UpdatedRow(old, v) ==
    [old EXCEPT !.seller = v.seller, !.buyer = v.buyer, !.nft_name = v.nft_name,
                !.nft_address = v.nft_address, !.url = v.url,
                !.token_id = v.token_id, !.amount = v.amount, !.price = v.price,
                !.status = v.status, !.tx_hash = v.tx_hash,
                !.deleted = v.deleted]

\* DuplicateRows as it would be without the unique key on listing_id.
DuplicateRowsTxHashOnly(tbl, v) == {r \in tbl : r.tx_hash = v.tx_hash}

\* The rows the INSERT collides with, unique key by unique key in the order
\* of the DDL: uk_orders_listing_id first, then uk_orders_tx_hash.
DuplicateRows(tbl, v) ==
    LET byListing == {r \in tbl : r.listing_id = v.listing_id}
        byTxHash  == {r \in tbl : r.tx_hash = v.tx_hash}
    IN  IF byListing # {} THEN byListing ELSE byTxHash

\* upsertOrder as REPLACE INTO: the rows that hold the listing id or the
\* tx hash of the new row are deleted and the new row is inserted.
upsertReplace(tbl, o, io) ==
    LET v    == RowValues(o)
        kept == {r \in tbl : r.listing_id # v.listing_id /\ r.tx_hash # v.tx_hash}
    IN  IF io.upsertFails THEN [orders |-> tbl, err |-> "db"]
        ELSE [orders |-> kept \cup {WithOrderID(v, NextOrderID(tbl))},
              err |-> "nil"]

\* upsertOrder: INSERT ... ON DUPLICATE KEY UPDATE. io.upsertFails is a failure
\* of the statement for a reason outside the table (connection, timeout).
\* The result is the new table and the error returned.
upsertOrder(tbl, o, io) ==
    LET v   == RowValues(o)
        dup == DuplicateRows(tbl, v)
    IN  IF io.upsertFails THEN [orders |-> tbl, err |-> "db"]
        ELSE IF dup = {}
        THEN [orders |-> tbl \cup {WithOrderID(v, NextOrderID(tbl))},
              err |-> "nil"]
        ELSE LET old == CHOOSE r \in dup : TRUE
                 new == UpdatedRow(old, v)
             IN  IF \E r \in tbl \ {old} : r.tx_hash = new.tx_hash
                 THEN [orders |-> tbl, err |-> "duplicate"]
                 ELSE [orders |-> (tbl \ {old}) \cup {new}, err |-> "nil"]

\* getOrderByID: SELECT ... WHERE listing_id = ?, scanned into an Order.
\* io.getFails is a failure of the query other than "no rows".
getOrderByID(tbl, listingID, io) ==
    LET rows == {r \in tbl : r.listing_id = listingID}
    IN  IF io.getFails THEN [found |-> FALSE, err |-> "db"]
        ELSE IF rows = {} THEN [found |-> FALSE, err |-> "ErrNoRows"]
        ELSE LET r == CHOOSE x \in rows : TRUE
             IN  [found |-> TRUE, err |-> "nil",
                  order |->
                    [ListingID |-> r.listing_id, Seller |-> r.seller,
                     Buyer |-> r.buyer, NFTName |-> r.nft_name,
                     NFTAddress |-> r.nft_address, URL |-> r.url,
                     TokenID |-> r.token_id, Amount |-> r.amount,
                     Price |-> r.price, Status |-> r.status,
                     TxHash |-> r.tx_hash, Deleted |-> r.deleted]]

(***************************************************************************)
(* Logs of the marketplace contract.                                       *)
(***************************************************************************)
\* common.Hash.Hex() / common.Address.Hex(): the 0x-prefixed hex string.
Hex(h) == "0x" \o h

\* big.Int.String(): the decimal string of a non-negative integer.
BigString(n) == ToString(n)

BadData == [bad |-> TRUE]

ListedData(tokenId, amount, price) ==
    [bad |-> FALSE, TokenId |-> tokenId, Amount |-> amount, Price |-> price]

ListedLog(l, seller, nft, price, h) ==
    [Topics |-> <<"Listed", l, seller, nft>>, Data |-> ListedData(1, 1, price),
     TxHash |-> h]

CancelledLog(l, h) ==
    [Topics |-> <<"Cancelled", l>>, Data |-> BadData, TxHash |-> h]

SoldLog(l, buyer, h) ==
    [Topics |-> <<"Sold", l, buyer>>, Data |-> BadData, TxHash |-> h]

ListedLogs ==
    {ListedLog(l, s, n, p, h) :
        l \in Listings, s \in SellerTopics, n \in NftTopics, p \in Prices,
        h \in Hashes}

CancelledLogs == {CancelledLog(l, h) : l \in Listings, h \in Hashes}

SoldLogs == {SoldLog(l, b, h) : l \in Listings, b \in BuyerTopics, h \in Hashes}

\* Logs the handlers ignore or reject: no topics, a foreign signature, too few
\* indexed topics, data that does not unpack.
OddLogs ==
    {[Topics |-> <<>>, Data |-> BadData, TxHash |-> "t1"],
     [Topics |-> <<"Other", 1>>, Data |-> BadData, TxHash |-> "t1"],
     [Topics |-> <<"Listed", 1, "AA">>, Data |-> ListedData(1, 1, 1000),
      TxHash |-> "t1"],
     [Topics |-> <<"Listed", 1, "AA", "NFT">>, Data |-> BadData, TxHash |-> "t1"],
     [Topics |-> <<"Cancelled">>, Data |-> BadData, TxHash |-> "t1"],
     [Topics |-> <<"Sold", 1>>, Data |-> BadData, TxHash |-> "t1"]}

Logs == ListedLogs \cup CancelledLogs \cup SoldLogs \cup OddLogs

\* Outcomes of the database calls of one handler run.
IOs == [getFails : BOOLEAN, upsertFails : BOOLEAN]

NoFailure == [getFails |-> FALSE, upsertFails |-> FALSE]

\* The database calls a log's handler makes: GetByID for a well-formed
\* Cancelled or Sold log, Upsert for these and for a well-formed Listed log.
CallsGet(lg) ==
    \/ Len(lg.Topics) >= 2 /\ lg.Topics[1] = "Cancelled"
    \/ Len(lg.Topics) >= 3 /\ lg.Topics[1] = "Sold"

CallsUpsert(lg) ==
    \/ CallsGet(lg)
    \/ Len(lg.Topics) >= 4 /\ lg.Topics[1] = "Listed" /\ ~lg.Data.bad

IOsFor(lg) ==
    {io \in IOs : /\ io.getFails => CallsGet(lg)
                  /\ io.upsertFails => CallsUpsert(lg)}

(***************************************************************************)
(* MarketplaceScanner handlers.                                            *)
(***************************************************************************)
\* handleListed writing the status INIT.
handleListedInit(tbl, lg, io) ==
    IF Len(lg.Topics) < 4 THEN [orders |-> tbl, err |-> "nil"]
    ELSE IF lg.Data.bad THEN [orders |-> tbl, err |-> "unpack"]
    ELSE upsertOrder(tbl,
            [Order(lg.Topics[2]) EXCEPT
                !.Seller = Hex(lg.Topics[3]),
                !.NFTAddress = Hex(lg.Topics[4]),
                !.TokenID = lg.Data.TokenId,
                !.Amount = lg.Data.Amount,
                !.Price = BigString(lg.Data.Price),
                !.Status = OrderStatusInit,
                !.TxHash = Hex(lg.TxHash)],
            io)

handleListed(tbl, lg, io) ==
    IF Len(lg.Topics) < 4 THEN [orders |-> tbl, err |-> "nil"]
    ELSE IF lg.Data.bad THEN [orders |-> tbl, err |-> "unpack"]
    ELSE upsertOrder(tbl,
            [Order(lg.Topics[2]) EXCEPT
                !.Seller = Hex(lg.Topics[3]),
                !.Buyer = "",
                !.NFTName = "",
                !.NFTAddress = Hex(lg.Topics[4]),
                !.TokenID = lg.Data.TokenId,
                !.Amount = lg.Data.Amount,
                !.Price = BigString(lg.Data.Price),
                !.Status = OrderStatusListed,
                !.TxHash = Hex(lg.TxHash),
                !.Deleted = 0],
            io)

\* handleCancelled after its GetByID returned got: the placeholder when the
\* lookup returned an error, the row read with the new status otherwise.
\* tbl is the table at the time of the Upsert.
cancelledUpsert(tbl, lg, got, io) ==
    LET listingID == lg.Topics[2]
    IN  IF got.err # "nil"
        THEN upsertOrder(tbl,
                [Order(listingID) EXCEPT
                    !.Status = OrderStatusCanceled,
                    !.TxHash = Hex(lg.TxHash),
                    !.Deleted = 0],
                io)
        ELSE upsertOrder(tbl,
                [got.order EXCEPT
                    !.Status = OrderStatusCanceled,
                    !.TxHash = Hex(lg.TxHash)],
                io)

handleCancelled(tbl, lg, io) ==
    IF Len(lg.Topics) < 2 THEN [orders |-> tbl, err |-> "nil"]
    ELSE cancelledUpsert(tbl, lg, getOrderByID(tbl, lg.Topics[2], io), io)

\* handleSold after its GetByID returned got.
soldUpsert(tbl, lg, got, io) ==
    LET listingID == lg.Topics[2]
        buyer == Hex(lg.Topics[3])
    IN  IF got.err # "nil"
        THEN upsertOrder(tbl,
                [Order(listingID) EXCEPT
                    !.Buyer = buyer,
                    !.Status = OrderStatusSuccess,
                    !.TxHash = Hex(lg.TxHash),
                    !.Deleted = 0],
                io)
        ELSE upsertOrder(tbl,
                [got.order EXCEPT
                    !.Buyer = buyer,
                    !.Status = OrderStatusSuccess,
                    !.TxHash = Hex(lg.TxHash)],
                io)

handleSold(tbl, lg, io) ==
    IF Len(lg.Topics) < 3 THEN [orders |-> tbl, err |-> "nil"]
    ELSE soldUpsert(tbl, lg, getOrderByID(tbl, lg.Topics[2], io), io)

\* handleLog with a default case that returns an error.
handleLogStrict(tbl, lg, io) ==
    IF Len(lg.Topics) = 0 THEN [orders |-> tbl, err |-> "nil"]
    ELSE IF lg.Topics[1] = "Listed" THEN handleListed(tbl, lg, io)
    ELSE IF lg.Topics[1] = "Cancelled" THEN handleCancelled(tbl, lg, io)
    ELSE IF lg.Topics[1] = "Sold" THEN handleSold(tbl, lg, io)
    ELSE [orders |-> tbl, err |-> "unknown event"]

handleLog(tbl, lg, io) ==
    IF Len(lg.Topics) = 0 THEN [orders |-> tbl, err |-> "nil"]
    ELSE IF lg.Topics[1] = "Listed" THEN handleListed(tbl, lg, io)
    ELSE IF lg.Topics[1] = "Cancelled" THEN handleCancelled(tbl, lg, io)
    ELSE IF lg.Topics[1] = "Sold" THEN handleSold(tbl, lg, io)
    ELSE [orders |-> tbl, err |-> "nil"]

(***************************************************************************)
(* RedisLocker / RedisLock.                                                *)
(***************************************************************************)
MaxAcquire == 3

Callers == {"A", "B"}

LockNames == {ToString(l) : l \in Listings}

\* NewRedisLocker: the default prefix.
Prefix == "lock:"

FullKey(key) == Prefix \o key

FullKeys == {FullKey(k) : k \in LockNames}

NoKey == 0

\* randomLockValue: 16 bytes of crypto/rand; the n-th value drawn, taken to
\* differ from every value drawn before.
randomLockValue(n) == n

\* SetNX as a plain SET, which overwrites a key that is present.
SetAlways(store, fullKey, value) ==
    [store |-> [store EXCEPT ![fullKey] = value], ok |-> TRUE]

\* SetNX as a SET that overwrites and then reports whether the key was absent.
SetClobber(store, fullKey, value) ==
    [store |-> [store EXCEPT ![fullKey] = value], ok |-> store[fullKey] = NoKey]

\* SET key value NX: sets the key only if it is absent.
SetNX(store, fullKey, value) ==
    IF store[fullKey] = NoKey
    THEN [store |-> [store EXCEPT ![fullKey] = value], ok |-> TRUE]
    ELSE [store |-> store, ok |-> FALSE]

\* ReleaseScript as a plain DEL, without the comparison.
ReleaseDel(store, fullKey, value) == [store EXCEPT ![fullKey] = NoKey]

\* The Lua script of Release, run atomically by EVAL:
\* if GET key == value then DEL key else 0.
ReleaseScript(store, fullKey, value) ==
    IF store[fullKey] = value THEN [store EXCEPT ![fullKey] = NoKey] ELSE store

\* Outcome of one Redis round trip: whether the command ran on the server and
\* whether its reply reached the client (no reply: the call returns an error).
RedisIOs == {io \in [executed : BOOLEAN, replied : BOOLEAN] :
                io.replied => io.executed}

\* f with x mapped to v.
Put(f, x, v) == [y \in DOMAIN f \cup {x} |-> IF y = x THEN v ELSE f[y]]

\* The handles acquired, not released and not expired.
Held == {h \in DOMAIN held : held[h] = "held"}

\* RedisLocker.Acquire(ctx, key, ttl) by caller c, ttl > 0.
Acquire(c, key, io) ==
    LET fullKey == FullKey(key)
        value   == randomLockValue(issued + 1)
        set     == IF io.executed THEN SetNX(redis, fullKey, value)
                   ELSE [store |-> redis, ok |-> FALSE]
        result  == IF ~io.replied THEN "err"
                   ELSE IF ~set.ok THEN "ErrLockNotAcquired" ELSE "ok"
        lock    == [caller |-> c, key |-> fullKey, value |-> value]
    IN  /\ issued < MaxAcquire
        /\ issued' = issued + 1
        /\ redis' = set.store
        /\ handles' = IF result = "ok" THEN handles \cup {lock} ELSE handles
        /\ held' = IF result = "ok" THEN Put(held, lock, "held") ELSE held
        /\ last' = [op |-> "Acquire", caller |-> c, key |-> fullKey, io |-> io,
                    existed |-> redis[fullKey] # NoKey, result |-> result]
        /\ UNCHANGED <<orders, runVars, rs, apiVars>>

\* RedisLock.Release(ctx) on a handle returned earlier; it may be called any
\* number of times.
Release(lock, io) ==
    /\ lock \in handles
    /\ redis' = IF io.executed THEN ReleaseScript(redis, lock.key, lock.value)
                ELSE redis
    /\ held' = IF io.executed /\ held[lock] = "held"
               THEN Put(held, lock, "released") ELSE held
    /\ last' = [op |-> "Release", lock |-> lock, io |-> io,
                before |-> redis[lock.key],
                err |-> IF io.replied THEN "nil" ELSE "err"]
    /\ UNCHANGED <<handles, issued, orders, runVars, rs, apiVars>>

\* A key stored without expiry: nothing happens to it.
NoExpiry(fullKey) ==
    /\ redis[fullKey] # NoKey
    /\ UNCHANGED <<redis, held, last>>
    /\ UNCHANGED <<handles, issued, orders, runVars, rs, apiVars>>

\* The TTL given to SetNX elapses: Redis removes the key.
Expire(fullKey) ==
    /\ redis[fullKey] # NoKey
    /\ redis' = [redis EXCEPT ![fullKey] = NoKey]
    /\ held' = [h \in DOMAIN held |->
                 IF held[h] = "held" /\ h.key = fullKey /\ h.value = redis[fullKey]
                 THEN "expired" ELSE held[h]]
    /\ last' = [op |-> "Expire", key |-> fullKey]
    /\ UNCHANGED <<handles, issued, orders, runVars, rs, apiVars>>

(***************************************************************************)
(* MarketplaceScanner.Run: the live poll loop.                             *)
(***************************************************************************)
\* Highest block number a head read returns.
MaxHead == 4

\* NewMarketplaceScanner: maxBatchBlocks.
maxBatchBlocks == 100

\* The marketplace logs of each block of the chain that is scanned.
ChainLogs(b) ==
    CASE b = 1 -> <<ListedLog(1, "AA", "NFT", 1000, "t1")>>
      [] b = 2 -> <<SoldLog(1, "BB", "t2")>>
      [] b = 3 -> <<CancelledLog(2, "t3"), [Topics |-> <<"Other", 1>>,
                                            Data |-> BadData, TxHash |-> "t3"]>>
      [] OTHER -> <<>>

\* The logs FilterLogs returns for FromBlock = f, ToBlock = t, in block order.
RECURSIVE RangeLogs(_, _)
RangeLogs(f, t) == IF f > t THEN <<>> ELSE ChainLogs(f) \o RangeLogs(f + 1, t)

\* The dispatch loop as it would be if it returned at the first handler error.
RECURSIVE DispatchAbort(_, _, _, _, _)
DispatchAbort(tbl, logs, i, failAt, io) ==
    IF i > Len(logs) THEN tbl
    ELSE LET res == handleLog(tbl, logs[i],
                              IF i = failAt THEN io ELSE NoFailure)
         IN  IF res.err # "nil" THEN res.orders
             ELSE DispatchAbort(res.orders, logs, i + 1, failAt, io)

\* for _, lg := range logs { handleLog(ctx, lg) }: errors are logged, the loop
\* goes on. The database calls of log number failAt (0: of no log) have the
\* outcome io, the others succeed. The table a handler leaves is computed
\* before the next handler is applied to it.
RECURSIVE Dispatch(_, _, _, _, _)
Dispatch(tbl, logs, i, failAt, io) ==
    IF i > Len(logs) THEN tbl
    ELSE CHOOSE out \in
            {Dispatch(t, logs, i + 1, failAt, io) :
                t \in {handleLog(tbl, logs[i],
                                 IF i = failAt THEN io ELSE NoFailure).orders}} :
            TRUE

\* The history with the blocks f..t of a completed sub-range marked.
Mark(h, f, t, how) ==
    [b \in DOMAIN h \cup (f..t) |-> IF b \in f..t THEN how ELSE h[b]]

\* The end of the sub-range without the cut at the head.
BatchEndPastHead(f, size, head) == f + size - 1

\* to := from + batchSize - 1; if to > latest { to = latest }
BatchEnd(f, size, head) ==
    IF f + size - 1 > head THEN head ELSE f + size - 1

\* TickPlan as it would be if a head below the watermark reset the watermark.
TickPlanResync(watermark, head) ==
    IF head <= watermark
    THEN [scan |-> FALSE, lastScanned |-> head]
    ELSE [scan |-> TRUE, lastScanned |-> watermark]

\* TickPlan as it would be with the test latest < lastScanned: a head equal
\* to the watermark starts the batch loop.
TickPlanStrict(watermark, head) ==
    IF head < watermark
    THEN [scan |-> FALSE, lastScanned |-> watermark]
    ELSE [scan |-> TRUE, lastScanned |-> watermark]

\* The tick's decision after a successful head read: nothing to do when the
\* head is not beyond the watermark; the watermark is left as it is.
TickPlan(watermark, head) ==
    IF head <= watermark
    THEN [scan |-> FALSE, lastScanned |-> watermark]
    ELSE [scan |-> TRUE, lastScanned |-> watermark]

\* The watermark a Run that scans from the first block would start with.
StartAtGenesis(head) == 0

\* lastScanned := head.Number.Uint64()
StartAtHead(head) == head

\* Run's first head read: the watermark starts at the head, or Run returns.
\* The history keeps the block of that head.
\* A call made with a cancelled context returns the context's error.
RunStart(head, ok) ==
    /\ runPc = "init"
    /\ ok => ~ctxDone
    /\ IF ok
       THEN /\ lastScanned' = StartAtHead(head)
            /\ runPc' = "wait"
            /\ live' = Mark(live, head, head, "start")
       ELSE /\ runPc' = "returned"
            /\ UNCHANGED <<lastScanned, live>>
    /\ last' = [op |-> "RunStart", head |-> head, ok |-> ok]
    /\ UNCHANGED <<ctxDone, latest, from, batchSize, orders, lockVars, rs, apiVars>>

\* case <-ticker.C: read the head; on success and head > lastScanned start
\* the batch loop at lastScanned + 1 with the full batch size.
Tick(head, ok) ==
    /\ runPc = "wait"
    /\ ok => ~ctxDone
    /\ IF ok /\ TickPlan(lastScanned, head).scan
       THEN /\ latest' = head
            /\ from' = lastScanned + 1
            /\ batchSize' = maxBatchBlocks
            /\ runPc' = "batch"
       ELSE UNCHANGED <<latest, from, batchSize, runPc>>
    /\ lastScanned' = IF ok THEN TickPlan(lastScanned, head).lastScanned
                      ELSE lastScanned
    /\ last' = [op |-> "Tick", head |-> head, ok |-> ok, watermark |-> lastScanned]
    /\ UNCHANGED <<ctxDone, live, orders, lockVars, rs, apiVars>>

\* The advance as it would be with from = to: the last block of a sub-range
\* is the first of the next.
NextFromSame(to) == to

\* The advance as it would be if it left one block out.
NextFromSkip(to) == to + 2

\* from = to + 1
NextFrom(to) == to + 1

\* One iteration of the batch loop whose FilterLogs call succeeds.
BatchOk(failAt, io) ==
    LET to   == BatchEnd(from, batchSize, latest)
        logs == RangeLogs(from, to)
    IN  /\ runPc = "batch"
        /\ ~ctxDone
        /\ failAt \in 0..Len(logs)
        /\ IF failAt = 0 THEN io = NoFailure
           ELSE io \in IOsFor(logs[failAt]) \ {NoFailure}
        /\ orders' = Dispatch(orders, logs, 1, failAt, io)
        /\ lastScanned' = to
        /\ from' = NextFrom(to)
        /\ runPc' = IF NextFrom(to) <= latest THEN "batch" ELSE "wait"
        /\ last' = [op |-> "Batch", outcome |-> "ok", from |-> from, to |-> to,
                    size |-> batchSize, watermark |-> lastScanned,
                    failAt |-> failAt, io |-> io]
        /\ live' = Mark(live, from, to, "ok")
        /\ UNCHANGED <<ctxDone, latest, batchSize, lockVars, rs, apiVars>>

\* The batch size left as it is on a limit error.
KeepSize(b) == b

\* The halving rounded up instead of down.
HalveUp(b) == (b + 1) \div 2

\* batchSize = batchSize / 2; if batchSize < 1 { batchSize = 1 }
Halve(b) == IF b \div 2 < 1 THEN 1 ELSE b \div 2

\* One iteration whose FilterLogs call fails with "limit exceeded": halve the
\* batch size and retry, or at size 1 skip the sub-range.
BatchLimit ==
    LET to == BatchEnd(from, batchSize, latest)
    IN  /\ runPc = "batch"
        /\ ~ctxDone
        /\ IF batchSize > 1
           THEN /\ batchSize' = Halve(batchSize)
                /\ UNCHANGED <<lastScanned, from, runPc, live>>
           ELSE /\ lastScanned' = to
                /\ from' = NextFrom(to)
                /\ runPc' = IF NextFrom(to) <= latest THEN "batch" ELSE "wait"
                /\ live' = Mark(live, from, to, "skipped")
                /\ UNCHANGED batchSize
        /\ last' = [op |-> "Batch", outcome |-> "limit", from |-> from,
                    to |-> to, size |-> batchSize, watermark |-> lastScanned]
        /\ UNCHANGED <<ctxDone, latest, orders, lockVars, rs, apiVars>>

\* The other errors handled as the limit error above batch size 1 is:
\* continue, the same range is queried again.
OtherErrorContinue == "batch"

\* Other errors: break, back to the select.
OtherErrorBreak == "wait"

\* One iteration whose FilterLogs call fails otherwise (the error of a
\* cancelled context is one of these): the loop is left, the next tick
\* retries.
BatchError ==
    /\ runPc = "batch"
    /\ runPc' = OtherErrorBreak
    /\ last' = [op |-> "Batch", outcome |-> "error", from |-> from,
                to |-> BatchEnd(from, batchSize, latest), size |-> batchSize,
                watermark |-> lastScanned]
    /\ UNCHANGED <<ctxDone, lastScanned, latest, from, batchSize, live, orders,
                   lockVars, rs, apiVars>>

\* The context passed to Run is cancelled.
Cancel ==
    /\ ~ctxDone
    /\ ctxDone' = TRUE
    /\ last' = [op |-> "Cancel"]
    /\ UNCHANGED <<runPc, lastScanned, latest, from, batchSize, live, orders,
                   lockVars, rs, apiVars>>

\* case <-ctx.Done(): Run returns.
RunReturn ==
    /\ runPc = "wait"
    /\ ctxDone
    /\ runPc' = "returned"
    /\ last' = [op |-> "RunReturn"]
    /\ UNCHANGED <<ctxDone, lastScanned, latest, from, batchSize, live, orders,
                   lockVars, rs, apiVars>>

(***************************************************************************)
(* MarketplaceScanner.ResyncRecent: one reconciliation pass. rs holds its   *)
(* locals from, latest and batchSize, and what the pass has done so far:   *)
(* the first block of its window, the table when it started, the blocks it *)
(* skipped and whether a handler returned an error.                        *)
(***************************************************************************)
\* Largest lookbackBlocks argument, and how many times ResyncRecent is called.
MaxLookback == 3
MaxResync == 1

\* A pass that would resume where the live loop is.
ResyncFromWatermark(lookbackBlocks, head) == lastScanned + 1

\* var from uint64 = 1; if lookbackBlocks > 0 && lookbackBlocks < latest {...}
ResyncFrom(lookbackBlocks, head) ==
    IF lookbackBlocks > 0 /\ lookbackBlocks < head
    THEN head - lookbackBlocks + 1 ELSE 1

\* What the caller of ResyncRecent gets and what the pass did.
ResyncResult(err, r) ==
    [op |-> "ResyncRecent", err |-> err, first |-> r.first,
     latest |-> r.latest, before |-> r.before, skipped |-> r.skipped,
     failed |-> r.failed]

\* The call up to its first FilterLogs query: the head read fails (the error
\* is returned), the head is 0 (nil is returned), or the loop is entered.
ResyncStart(head, ok, lookbackBlocks) ==
    LET r == [pc |-> "batch", from |-> ResyncFrom(lookbackBlocks, head),
              latest |-> head, batchSize |-> maxBatchBlocks,
              first |-> ResyncFrom(lookbackBlocks, head), before |-> orders,
              skipped |-> {}, failed |-> FALSE, calls |-> rs.calls + 1]
    IN  /\ rs.pc = "idle"
        /\ rs.calls < MaxResync
        /\ IF ~ok
           THEN /\ last' = ResyncResult("rpc", r)
                /\ rs' = [rs EXCEPT !.calls = @ + 1]
           ELSE IF head = 0
           THEN /\ last' = ResyncResult("nil", r)
                /\ rs' = [rs EXCEPT !.calls = @ + 1]
           ELSE /\ last' = [op |-> "ResyncStart", head |-> head,
                            lookbackBlocks |-> lookbackBlocks]
                /\ rs' = r
        /\ UNCHANGED <<orders, lockVars, runVars, apiVars>>

\* from = to + 1, then the loop test: the next iteration, or return nil.
ResyncAdvance(r, to) ==
    IF to + 1 <= r.latest
    THEN /\ rs' = [r EXCEPT !.from = to + 1]
         /\ last' = [op |-> "ResyncBatch", from |-> r.from, to |-> to]
    ELSE /\ rs' = [pc |-> "idle", calls |-> r.calls]
         /\ last' = ResyncResult("nil", r)

\* One iteration whose FilterLogs call succeeds: every log is dispatched,
\* handler errors are logged only.
ResyncBatchOk(failAt, io) ==
    LET to   == BatchEnd(rs.from, rs.batchSize, rs.latest)
        logs == RangeLogs(rs.from, to)
    IN  /\ rs.pc = "batch"
        /\ failAt \in 0..Len(logs)
        /\ IF failAt = 0 THEN io = NoFailure
           ELSE io \in IOsFor(logs[failAt]) \ {NoFailure}
        /\ orders' = Dispatch(orders, logs, 1, failAt, io)
        /\ ResyncAdvance([rs EXCEPT !.failed = @ \/ failAt # 0], to)
        /\ UNCHANGED <<lockVars, runVars, apiVars>>

\* One iteration whose FilterLogs call fails with "limit exceeded": halve
\* the batch size and retry, or at size 1 skip the sub-range.
ResyncBatchLimit ==
    LET to == BatchEnd(rs.from, rs.batchSize, rs.latest)
    IN  /\ rs.pc = "batch"
        /\ IF rs.batchSize > 1
           THEN /\ rs' = [rs EXCEPT !.batchSize = Halve(@)]
                /\ last' = [op |-> "ResyncBatch", from |-> rs.from, to |-> to]
           ELSE ResyncAdvance([rs EXCEPT !.skipped = @ \cup (rs.from..to)], to)
        /\ UNCHANGED <<orders, lockVars, runVars, apiVars>>

\* One iteration whose FilterLogs call fails otherwise: the error is returned.
ResyncBatchError ==
    /\ rs.pc = "batch"
    /\ rs' = [pc |-> "idle", calls |-> rs.calls]
    /\ last' = ResyncResult("rpc", rs)
    /\ UNCHANGED <<orders, lockVars, runVars, apiVars>>

(***************************************************************************)
(* The scanner applying logs to the table, in any order and any number of  *)
(* times (live loop and ResyncRecent both dispatch through handleLog).     *)
(***************************************************************************)
NoCall == [op |-> "none"]

\* No lock key set, no handle issued.
LockIdle ==
    /\ redis = [k \in FullKeys |-> NoKey]
    /\ handles = {}
    /\ held = <<>>
    /\ issued = 0

\* Run not yet started.
RunIdle ==
    /\ runPc = "init"
    /\ ctxDone = FALSE
    /\ lastScanned = 0
    /\ latest = 0
    /\ from = 0
    /\ batchSize = 0
    /\ live = <<>>

\* No asset, no API request, no handler between its read and its write.
ApiIdle ==
    /\ assets = {}
    /\ api = <<>>
    /\ hl = [pc |-> "idle"]

\* No ResyncRecent call in progress.
ResyncIdle == rs = [pc |-> "idle", calls |-> 0]

InitScanner ==
    /\ orders = {}
    /\ last = NoCall
    /\ LockIdle
    /\ RunIdle
    /\ ResyncIdle
    /\ ApiIdle

HandleLog(lg, io) ==
    LET res == handleLog(orders, lg, io)
    IN  /\ orders' = res.orders
        /\ last' = [op |-> "handleLog", lg |-> lg, io |-> io, err |-> res.err]
        /\ UNCHANGED <<lockVars, runVars, rs, apiVars>>

NextScanner == \E lg \in Logs : \E io \in IOsFor(lg) : HandleLog(lg, io)

SpecScanner == InitScanner /\ [][NextScanner]_vars

\* The keys the callers contend for: those of two listings.
ContendedNames == {ToString(1), ToString(2)}

NextLock ==
    \/ \E c \in Callers, k \in ContendedNames, io \in RedisIOs :
          Acquire(c, k, io)
    \/ \E h \in handles, io \in RedisIOs : Release(h, io)
    \/ \E k \in FullKeys : Expire(k)

SpecLock == InitScanner /\ [][NextLock]_vars

\* The callers contending for the key of one listing. Redis removes a key
\* that SetNX stored with a TTL once the TTL has elapsed, whatever the
\* clients do: Expire is taken when it stays enabled.
ExpiringName == ToString(1)

NextExpiry ==
    \/ \E c \in Callers, io \in RedisIOs : Acquire(c, ExpiringName, io)
    \/ \E h \in handles, io \in RedisIOs : Release(h, io)
    \/ Expire(FullKey(ExpiringName))

SpecExpiry ==
    InitScanner /\ [][NextExpiry]_vars /\ WF_vars(Expire(FullKey(ExpiringName)))

Heads == 0..MaxHead

NextRun ==
    \/ \E head \in Heads, ok \in BOOLEAN : RunStart(head, ok)
    \/ \E head \in Heads, ok \in BOOLEAN : Tick(head, ok)
    \/ \E failAt \in 0..MaxHead, io \in IOs : BatchOk(failAt, io)
    \/ BatchLimit
    \/ BatchError
    \/ Cancel
    \/ RunReturn

SpecRun == InitScanner /\ [][NextRun]_vars

\* A call Run makes with a cancelled context returns, with the context's
\* error: the first head read, or FilterLogs in the batch loop.
CancelledCall ==
    /\ ctxDone
    /\ \/ \E head \in Heads : RunStart(head, FALSE)
       \/ BatchError

\* Run scheduled fairly: a call made with a cancelled context returns, and
\* the select, which chooses at random among its ready cases, takes
\* ctx.Done() at some point once it is ready.
SpecRunFair ==
    InitScanner /\ [][NextRun]_vars /\ WF_vars(CancelledCall) /\ WF_vars(RunReturn)

\* One iteration of the batch loop: the FilterLogs call returns, with logs
\* or with an error, and the iteration runs to the next one or out of the
\* loop. The handlers' outcomes have no part in the loop's control and are
\* taken without failures.
Iteration ==
    \/ BatchOk(0, NoFailure)
    \/ BatchLimit
    \/ BatchError

\* Run with every call of the batch loop returning: the loop has no select
\* and no wait, so an iteration that can run does.
NextLoop ==
    \/ \E head \in Heads, ok \in BOOLEAN : RunStart(head, ok)
    \/ \E head \in Heads, ok \in BOOLEAN : Tick(head, ok)
    \/ Iteration
    \/ Cancel
    \/ RunReturn

SpecLoop == InitScanner /\ [][NextLoop]_vars /\ WF_vars(Iteration)

NextResync ==
    \/ \E head \in Heads, ok \in BOOLEAN, n \in 0..MaxLookback :
          ResyncStart(head, ok, n)
    \/ \E failAt \in 0..MaxHead, io \in IOs : ResyncBatchOk(failAt, io)
    \/ ResyncBatchLimit
    \/ ResyncBatchError

\* The live loop without cancellation.
NextLive ==
    \/ \E head \in Heads, ok \in BOOLEAN : RunStart(head, ok)
    \/ \E head \in Heads, ok \in BOOLEAN : Tick(head, ok)
    \/ \E failAt \in 0..MaxHead, io \in IOs : BatchOk(failAt, io)
    \/ BatchLimit
    \/ BatchError

\* The live loop and reconciliation passes feeding the same table, a pass
\* running from start to end between two ticks of the live loop.
NextReconcile ==
    \/ rs.pc = "idle" /\ NextLive
    \/ runPc = "wait" /\ NextResync

SpecReconcile == InitScanner /\ [][NextReconcile]_vars

(***************************************************************************)
(* The store called directly: Upsert with any order value (the scanner's   *)
(* orders and those of any other caller of OrderStore.Upsert).             *)
(***************************************************************************)
UpsertOrders ==
    {[Order(l) EXCEPT !.Seller = "0xAA", !.NFTAddress = "0xNFT",
                      !.Buyer = IF st = OrderStatusSuccess THEN "0xBB" ELSE "",
                      !.TokenID = 1, !.Amount = 1, !.Price = "1000",
                      !.Status = st, !.TxHash = h] :
        l \in Listings,
        st \in {OrderStatusListed, OrderStatusSuccess, OrderStatusCanceled},
        h \in {""} \cup {Hex(x) : x \in Hashes}}

RowsOf(tbl, l) == {r \in tbl : r.listing_id = l}

Upsert(o, io) ==
    LET res == upsertOrder(orders, o, io)
    IN  /\ orders' = res.orders
        /\ last' = [op |-> "Upsert", o |-> o, io |-> io, err |-> res.err,
                    had |-> RowsOf(orders, o.ListingID) # {},
                    rows |-> Cardinality(orders)]
        /\ UNCHANGED <<lockVars, runVars, rs, apiVars>>

NextStore ==
    \E o \in UpsertOrders : \E io \in {x \in IOs : ~x.getFails} : Upsert(o, io)

SpecStore == InitScanner /\ [][NextStore]_vars

(***************************************************************************)
(* One Listed log and one terminal log of the same listing, delivered to   *)
(* an empty table in any order, each possibly more than once.              *)
(***************************************************************************)
MaxDeliver == 3

EventPairs ==
    {[op |-> "pair", listed |-> a, terminal |-> b, applied |-> <<>>] :
        a \in ListedLogs, b \in CancelledLogs \cup SoldLogs}

InitOrder ==
    /\ orders = {}
    /\ last \in {e \in EventPairs : e.listed.Topics[2] = e.terminal.Topics[2]}
    /\ LockIdle
    /\ RunIdle
    /\ ResyncIdle
    /\ ApiIdle

DeliverListed ==
    /\ Len(last.applied) < MaxDeliver
    /\ orders' = handleLog(orders, last.listed, NoFailure).orders
    /\ last' = [last EXCEPT !.applied = Append(@, "Listed")]
    /\ UNCHANGED <<lockVars, runVars, rs, apiVars>>

DeliverTerminal ==
    /\ Len(last.applied) < MaxDeliver
    /\ orders' = handleLog(orders, last.terminal, NoFailure).orders
    /\ last' = [last EXCEPT !.applied = Append(@, "Terminal")]
    /\ UNCHANGED <<lockVars, runVars, rs, apiVars>>

NextOrder == DeliverListed \/ DeliverTerminal

SpecOrder == InitOrder /\ [][NextOrder]_vars

\* The table after the Listed log and then the terminal log, in chain order.
ChainOrder(listed, terminal) ==
    handleLog(handleLog({}, listed, NoFailure).orders, terminal, NoFailure).orders

\* The columns of an order row that the events determine.
Content(r) ==
    [listing_id |-> r.listing_id, status |-> r.status, buyer |-> r.buyer,
     seller |-> r.seller, nft_address |-> r.nft_address,
     token_id |-> r.token_id, amount |-> r.amount, price |-> r.price]

StatusOf(tbl, l) ==
    IF RowsOf(tbl, l) = {} THEN "none"
    ELSE (CHOOSE r \in RowsOf(tbl, l) : TRUE).status

(***************************************************************************)
(* NftAssetStore: the table nft_assets. A nullable column holds {} for     *)
(* NULL and {v} for the value v.                                           *)
(***************************************************************************)
\* How many assets are inserted.
MaxAssets == 2

AssetOwners == {"0xAA", "0xBB"}
AssetAddresses == {"0xNFT"}
AssetTokens == {1, 2}

\* sql.NullInt64{Int64: v, Valid: v != 0}, sql.NullString{String: v, Valid: v != ""}
NullIfZero(v) == IF v = 0 THEN {} ELSE {v}
NullIfEmpty(v) == IF v = "" THEN {} ELSE {v}

\* id BIGINT NOT NULL AUTO_INCREMENT
NextAssetID(tbl) ==
    IF tbl = {} THEN 1
    ELSE 1 + (CHOOSE m \in {r.id : r \in tbl} : \A r \in tbl : r.id <= m)

\* Insert: one new row; zero token id and amount and an empty address are
\* stored as NULL.
insertAsset(tbl, a) ==
    tbl \cup {[id |-> NextAssetID(tbl), name |-> a.Name, owner |-> a.Owner,
               cid |-> a.CID, url |-> a.URL,
               token_id |-> NullIfZero(a.TokenID),
               nft_address |-> NullIfEmpty(a.NFTAddress),
               amount |-> NullIfZero(a.Amount), deleted |-> a.Deleted]}

\* UPDATE nft_assets SET token_id = ?, nft_address = ?, amount = ?
\* WHERE id = ? AND deleted = 0
updateMintInfo(tbl, id, tokenID, nftAddress, amount) ==
    {IF r.id = id /\ r.deleted = 0
     THEN [r EXCEPT !.token_id = {tokenID}, !.nft_address = {nftAddress},
                    !.amount = {amount}]
     ELSE r : r \in tbl}

\* WHERE nft_address = ? AND token_id = ?
ByNFT(tbl, nftAddress, tokenID) ==
    {r \in tbl : r.nft_address = {nftAddress} /\ r.token_id = {tokenID}}

\* UPDATE nft_assets SET deleted = 1 WHERE nft_address = ? AND token_id = ?
softDeleteByNFT(tbl, nftAddress, tokenID) ==
    {IF r \in ByNFT(tbl, nftAddress, tokenID)
     THEN [r EXCEPT !.deleted = 1] ELSE r : r \in tbl}

\* UPDATE nft_assets SET deleted = 0 WHERE nft_address = ? AND token_id = ?
restoreByNFT(tbl, nftAddress, tokenID) ==
    {IF r \in ByNFT(tbl, nftAddress, tokenID)
     THEN [r EXCEPT !.deleted = 0] ELSE r : r \in tbl}

\* An update that moves the owner and leaves the deleted flag to a later
\* statement.
updateOwnerOnly(tbl, nftAddress, tokenID, newOwner) ==
    {IF r \in ByNFT(tbl, nftAddress, tokenID)
     THEN [r EXCEPT !.owner = newOwner] ELSE r : r \in tbl}

\* UPDATE nft_assets SET owner = ?, deleted = 0
\* WHERE nft_address = ? AND token_id = ?
updateOwnerByNFT(tbl, nftAddress, tokenID, newOwner) ==
    {IF r \in ByNFT(tbl, nftAddress, tokenID)
     THEN [r EXCEPT !.owner = newOwner, !.deleted = 0] ELSE r : r \in tbl}

\* The asset POST /assets builds after the upload.
NewAssets ==
    {[Name |-> "n", Owner |-> o, CID |-> "cid", URL |-> "url", TokenID |-> 0,
      NFTAddress |-> "", Amount |-> 0, Deleted |-> 0] : o \in AssetOwners}

\* The store calls on the default connection. ok is whether the statement
\* reaches the server and succeeds.
AssetCall(op, args, ok, tbl) ==
    /\ assets' = IF ok THEN tbl ELSE assets
    /\ last' = [op |-> op, args |-> args, ok |-> ok,
                was |-> IF ok THEN assets \ tbl ELSE {},
                changed |-> IF ok THEN Cardinality(assets \ tbl) ELSE 0]
    /\ UNCHANGED <<orders, lockVars, runVars, rs, api, hl>>

Insert(a, ok) ==
    /\ Cardinality(assets) < MaxAssets
    /\ AssetCall("Insert", <<a>>, ok, insertAsset(assets, a))

UpdateMintInfo(id, tokenID, nftAddress, amount, ok) ==
    AssetCall("UpdateMintInfo", <<id, tokenID, nftAddress, amount>>, ok,
              updateMintInfo(assets, id, tokenID, nftAddress, amount))

SoftDeleteByNFT(nftAddress, tokenID, ok) ==
    AssetCall("SoftDeleteByNFT", <<nftAddress, tokenID>>, ok,
              softDeleteByNFT(assets, nftAddress, tokenID))

RestoreByNFT(nftAddress, tokenID, ok) ==
    AssetCall("RestoreByNFT", <<nftAddress, tokenID>>, ok,
              restoreByNFT(assets, nftAddress, tokenID))

UpdateOwnerByNFT(nftAddress, tokenID, newOwner, ok) ==
    AssetCall("UpdateOwnerByNFT", <<nftAddress, tokenID, newOwner>>, ok,
              updateOwnerByNFT(assets, nftAddress, tokenID, newOwner))

\* ListByOwner: undeleted rows of the owner, ORDER BY updated_at DESC LIMIT ?
\* with 50 for a limit <= 0; a NULL token_id, nft_address or amount is read
\* as 0, '' and 0.
DefaultLimit == 50

IfNull(col, v) == IF col = {} THEN v ELSE CHOOSE x \in col : TRUE

ScanAsset(r) ==
    [ID |-> r.id, Name |-> r.name, Owner |-> r.owner, CID |-> r.cid,
     URL |-> r.url, TokenID |-> IfNull(r.token_id, 0),
     NFTAddress |-> IfNull(r.nft_address, ""), Amount |-> IfNull(r.amount, 0),
     Deleted |-> r.deleted]

\* WHERE owner = ?, whatever the deleted flag.
OwnedAnyFlag(tbl, owner) == {r \in tbl : r.owner = owner}

\* WHERE owner = ? AND deleted = 0
Owned(tbl, owner) == {r \in tbl : r.owner = owner /\ r.deleted = 0}

\* The row sets the query can return. updated_at is a DATETIME that the
\* server sets to its clock, in whole seconds, on every insert and change;
\* rows written within one second compare equal and come in an order the
\* server chooses. The table is kept without the column, so the rows that
\* survive the LIMIT are any that some timing of the statements puts first.
ListByOwnerRows(tbl, owner, limit) ==
    LET lim  == IF limit <= 0 THEN DefaultLimit ELSE limit
        rows == Owned(tbl, owner)
        n    == IF Cardinality(rows) < lim THEN Cardinality(rows) ELSE lim
    IN  {{ScanAsset(r) : r \in cut} :
           cut \in {c \in SUBSET rows : Cardinality(c) = n}}

Limits == {0, 1, 2}

\* The query on the default connection; ok is whether it reaches the server
\* and every row scans.
ListByOwner(owner, limit, ok) ==
    /\ \E out \in IF ok THEN ListByOwnerRows(assets, owner, limit) ELSE {{}} :
          last' = [op |-> "ListByOwner", owner |-> owner, limit |-> limit,
                   ok |-> ok, out |-> out]
    /\ UNCHANGED <<orders, assets, lockVars, runVars, rs, api, hl>>

NextAssets ==
    \/ \E a \in NewAssets, ok \in BOOLEAN : Insert(a, ok)
    \/ \E id \in 1..MaxAssets, t \in AssetTokens, n \in AssetAddresses,
          ok \in BOOLEAN : UpdateMintInfo(id, t, n, 1, ok)
    \/ \E n \in AssetAddresses, t \in AssetTokens, ok \in BOOLEAN :
          SoftDeleteByNFT(n, t, ok)
    \/ \E n \in AssetAddresses, t \in AssetTokens, ok \in BOOLEAN :
          RestoreByNFT(n, t, ok)
    \/ \E n \in AssetAddresses, t \in AssetTokens, o \in AssetOwners,
          ok \in BOOLEAN : UpdateOwnerByNFT(n, t, o, ok)

SpecAssets == InitScanner /\ [][NextAssets]_vars

\* The store calls and the list read after any of them.
NextList ==
    \/ NextAssets
    \/ \E o \in AssetOwners, limit \in Limits, ok \in BOOLEAN :
          ListByOwner(o, limit, ok)

SpecList == InitScanner /\ [][NextList]_vars

(***************************************************************************)
(* ResyncRecent called while Run is at any point of its loop, the calls of *)
(* the two interleaved freely; the handlers do not fail and the provider   *)
(* sets no limit.                                                          *)
(***************************************************************************)
NextBeside ==
    \/ \E head \in Heads, ok \in BOOLEAN : RunStart(head, ok)
    \/ \E head \in Heads, ok \in BOOLEAN : Tick(head, ok)
    \/ BatchOk(0, NoFailure)
    \/ BatchError
    \/ \E head \in Heads, ok \in BOOLEAN, n \in 0..MaxLookback :
          ResyncStart(head, ok, n)
    \/ ResyncBatchOk(0, NoFailure)
    \/ ResyncBatchError

SpecBeside == InitScanner /\ [][NextBeside]_vars

(***************************************************************************)
(* Both tables under the scanner's handlers and the stores' mutators. No   *)
(* statement of OrderStore names nft_assets and none of NftAssetStore      *)
(* names orders, so the tables are exercised one at a time; a run is one   *)
(* of handler applications, of Upsert calls or of asset store calls.       *)
(***************************************************************************)
NextTables ==
    \/ last.op \in {"none", "handleLog"} /\ NextScanner
    \/ last.op \in {"none", "Upsert"} /\ NextStore
    \/ orders = {} /\ last.op \notin {"handleLog", "Upsert"} /\ NextAssets

SpecTables == InitScanner /\ [][NextTables]_vars

(***************************************************************************)
(* The API-driven writer: POST /orders (create) and POST                   *)
(* /orders/:listingId/status (status update). Its handlers follow the       *)
(* protocol of the specification, section 4.5: acquire the lock of the     *)
(* listing id; in one transaction re-read the order with a row lock,       *)
(* validate the transition, write the order and the asset; commit; release *)
(* the lock. The store and lock calls it makes are those modelled above.   *)
(***************************************************************************)
\* The API requests in flight together; r1 is the first to arrive.
Reqs == {"r1", "r2"}

StatusRequests ==
    {[kind |-> "status", listing |-> l, status |-> st,
      buyer |-> IF st = OrderStatusSuccess THEN "0xBB" ELSE ""] :
        l \in Listings, st \in Terminal}

CreateRequests ==
    {[kind |-> "create", listing |-> l, status |-> OrderStatusListed,
      buyer |-> ""] : l \in Listings}

ApiRequests == StatusRequests \cup CreateRequests

\* The order a create request carries: listing l sells token l.
CreateOrder(l) ==
    [Order(l) EXCEPT !.Seller = "0xAA", !.NFTAddress = "0xNFT", !.TokenID = l,
                     !.Amount = 1, !.Price = "1000",
                     !.Status = OrderStatusListed,
                     !.TxHash = "0xc" \o ToString(l)]

\* getOrderByID: if forUpdate { q = q + " FOR UPDATE" }
getOrderByIDQueryPlain(forUpdate) == ""

getOrderByIDQuery(forUpdate) == IF forUpdate THEN " FOR UPDATE" ELSE ""

\* UpsertTx runs upsertOrder on the transaction it is given, not on s.db.
UpsertTxOnDb(db, tx) == db

UpsertTxExec(db, tx) == tx

\* SoftDeleteByNFTTx, RestoreByNFTTx, UpdateOwnerByNFTTx likewise.
AssetTxExec(db, tx) == tx

\* The requests whose transaction holds the row lock of listing l.
RowLockedBy(l) ==
    {r \in DOMAIN api : api[r].pc = "tx" /\ api[r].rowLock /\ api[r].req.listing = l}

\* Acquire of the lock of the request's listing id, as RedisLocker.Acquire.
ApiAcquire(r, req, io) ==
    LET fullKey == FullKey(ToString(req.listing))
        value   == randomLockValue(issued + 1)
        set     == IF io.executed THEN SetNX(redis, fullKey, value)
                   ELSE [store |-> redis, ok |-> FALSE]
        result  == IF ~io.replied THEN "err"
                   ELSE IF ~set.ok THEN "ErrLockNotAcquired" ELSE "ok"
        lock    == [caller |-> r, key |-> fullKey, value |-> value]
    IN  /\ r \notin DOMAIN api
        /\ r = "r1" \/ "r1" \in DOMAIN api
        /\ issued < MaxAcquire
        /\ issued' = issued + 1
        /\ redis' = set.store
        /\ handles' = IF result = "ok" THEN handles \cup {lock} ELSE handles
        /\ held' = IF result = "ok" THEN Put(held, lock, "held") ELSE held
        /\ api' = Put(api, r,
                      [req |-> req, lock |-> lock, rowLock |-> FALSE,
                       read |-> Order(req.listing),
                       pc |-> IF result = "ok" THEN "locked" ELSE "done",
                       result |-> IF result = "ok" THEN "pending"
                                  ELSE IF result = "ErrLockNotAcquired"
                                  THEN "conflict" ELSE "error"])
        /\ last' = [op |-> "ApiAcquire", r |-> r, io |-> io,
                    existed |-> redis[fullKey] # NoKey, result |-> result]
        /\ UNCHANGED <<orders, assets, hl, runVars, rs>>

\* BEGIN; for a status update GetByIDForUpdateTx and the validation of the
\* transition. The locking read waits while another transaction holds the
\* row lock.
ApiBegin(r, io) ==
    LET req    == api[r].req
        locks  == getOrderByIDQuery(TRUE) = " FOR UPDATE"
        got    == getOrderByID(orders, req.listing, io)
    IN  /\ r \in DOMAIN api /\ api[r].pc = "locked"
        /\ ~io.upsertFails
        /\ IF req.kind = "create"
           THEN /\ ~io.getFails
                /\ api' = [api EXCEPT ![r].pc = "tx",
                                      ![r].read = CreateOrder(req.listing)]
           ELSE /\ locks => RowLockedBy(req.listing) = {}
                /\ api' = IF got.err # "nil"
                          THEN [api EXCEPT ![r].pc = "unlock",
                                  ![r].result = IF got.err = "ErrNoRows"
                                                THEN "notfound" ELSE "error"]
                          ELSE IF /\ got.order.Status \in Terminal
                                  /\ got.order.Status # req.status
                          THEN [api EXCEPT ![r].pc = "unlock",
                                           ![r].result = "rejected"]
                          ELSE [api EXCEPT ![r].pc = "tx",
                                           ![r].read = got.order,
                                           ![r].rowLock = locks]
        /\ last' = [op |-> "ApiBegin", r |-> r, io |-> io]
        /\ UNCHANGED <<orders, assets, hl, lockVars, runVars, rs>>

\* Outcomes of the statements of the transaction and of its commit.
TxIOs == [upsertFails : BOOLEAN, assetFails : BOOLEAN, commitFails : BOOLEAN]

\* The order a request writes: the create request's order, or the row read
\* with the new status (and the buyer of a sale).
ApiOrder(a) ==
    IF a.req.kind = "create" THEN a.read
    ELSE [a.read EXCEPT !.Status = a.req.status,
                        !.Buyer = IF a.req.status = OrderStatusSuccess
                                  THEN a.req.buyer ELSE @]

\* The companion asset change: deleted = 1 on listing, deleted = 0 on cancel,
\* owner = buyer and deleted = 0 on sale.
ApiAssets(tbl, a) ==
    LET o == ApiOrder(a)
    IN  IF a.req.kind = "create"
        THEN softDeleteByNFT(tbl, o.NFTAddress, o.TokenID)
        ELSE IF a.req.status = OrderStatusSuccess
        THEN updateOwnerByNFT(tbl, o.NFTAddress, o.TokenID, a.req.buyer)
        ELSE restoreByNFT(tbl, o.NFTAddress, o.TokenID)

\* UpsertTx, the asset Tx call, and COMMIT (ROLLBACK on the first error). A
\* statement run on the transaction takes effect at the commit; one run on
\* the default connection takes effect at once and is not rolled back. The
\* upsert waits while another transaction holds the row lock.
ApiCommit(r, io) ==
    LET a        == api[r]
        up       == upsertOrder(orders, ApiOrder(a),
                                [getFails |-> FALSE,
                                 upsertFails |-> io.upsertFails])
        upOk     == up.err = "nil"
        assetOk  == upOk /\ ~io.assetFails
        commitOk == assetOk /\ ~io.commitFails
        upKept   == upOk /\ (commitOk \/ UpsertTxExec("db", "tx") = "db")
        asKept   == assetOk /\ (commitOk \/ AssetTxExec("db", "tx") = "db")
    IN  /\ r \in DOMAIN api /\ a.pc = "tx"
        /\ RowLockedBy(a.req.listing) \subseteq {r}
        /\ io.assetFails => ~io.upsertFails
        /\ io.commitFails => ~io.upsertFails /\ ~io.assetFails
        /\ orders' = IF upKept THEN up.orders ELSE orders
        /\ assets' = IF asKept THEN ApiAssets(assets, a) ELSE assets
        /\ api' = [api EXCEPT ![r].pc = "unlock", ![r].rowLock = FALSE,
                              ![r].result = IF commitOk THEN "ok" ELSE "error"]
        /\ last' = [op |-> "ApiCommit", r |-> r, io |-> io, ok |-> commitOk,
                    order |-> ApiOrder(a)]
        /\ UNCHANGED <<hl, lockVars, runVars, rs>>

\* defer lock.Release(ctx), as RedisLock.Release.
ApiRelease(r, io) ==
    LET lock == api[r].lock
    IN  /\ r \in DOMAIN api /\ api[r].pc = "unlock"
        /\ redis' = IF io.executed
                    THEN ReleaseScript(redis, lock.key, lock.value) ELSE redis
        /\ held' = IF io.executed /\ held[lock] = "held"
                   THEN Put(held, lock, "released") ELSE held
        /\ api' = [api EXCEPT ![r].pc = "done", ![r].read = Order(@.ListingID)]
        /\ last' = [op |-> "ApiRelease", r |-> r, io |-> io,
                    before |-> redis[lock.key]]
        /\ UNCHANGED <<handles, issued, orders, assets, hl, runVars, rs>>

(***************************************************************************)
(* The scanner beside the API: handleCancelled and handleSold make two     *)
(* store calls on the default connection, GetByID and then Upsert, and     *)
(* other writers may commit between the two.                               *)
(***************************************************************************)
\* s.orderStore.GetByID of handleCancelled / handleSold: a plain read.
ScanRead(lg, io) ==
    /\ hl.pc = "idle"
    /\ lg \in CancelledLogs \cup SoldLogs
    /\ ~io.upsertFails
    /\ hl' = [pc |-> "read", lg |-> lg,
              got |-> getOrderByID(orders, lg.Topics[2], io)]
    /\ last' = [op |-> "ScanRead", lg |-> lg, io |-> io]
    /\ UNCHANGED <<orders, assets, api, lockVars, runVars, rs>>

\* s.orderStore.Upsert of handleCancelled / handleSold. The statement waits
\* for a row lock held by a transaction (or fails: io.upsertFails).
ScanWrite(io) ==
    LET lg  == hl.lg
        res == IF lg \in CancelledLogs
               THEN cancelledUpsert(orders, lg, hl.got, io)
               ELSE soldUpsert(orders, lg, hl.got, io)
    IN  /\ hl.pc = "read"
        /\ ~io.getFails
        /\ io.upsertFails \/ RowLockedBy(lg.Topics[2]) = {}
        /\ orders' = res.orders
        /\ hl' = [pc |-> "idle"]
        /\ last' = [op |-> "ScanWrite", lg |-> lg, got |-> hl.got,
                    err |-> res.err,
                    now |-> getOrderByID(orders, lg.Topics[2], NoFailure)]
        /\ UNCHANGED <<assets, api, lockVars, runVars, rs>>

\* handleListed makes one store call.
ScanListed(lg) ==
    /\ hl.pc = "idle"
    /\ lg \in ListedLogs
    /\ RowLockedBy(lg.Topics[2]) = {}
    /\ HandleLog(lg, NoFailure)

\* One minted asset per listing: token l of 0xNFT, owned by the seller.
RECURSIVE MintedAssets(_)
MintedAssets(n) ==
    IF n = 0 THEN {}
    ELSE updateMintInfo(
            insertAsset(MintedAssets(n - 1),
                        [Name |-> "n", Owner |-> "0xAA", CID |-> "cid",
                         URL |-> "url", TokenID |-> 0, NFTAddress |-> "",
                         Amount |-> 0, Deleted |-> 0]),
            n, n, "0xNFT", 1)

\* The tables after a create request for each of the listings 1..n.
RECURSIVE ListedOrders(_)
ListedOrders(n) ==
    IF n = 0 THEN {}
    ELSE upsertOrder(ListedOrders(n - 1), CreateOrder(n), NoFailure).orders

RECURSIVE ListedAssets(_)
ListedAssets(n) ==
    IF n = 0 THEN MintedAssets(MaxListing)
    ELSE softDeleteByNFT(ListedAssets(n - 1), "0xNFT", n)

\* The API-driven writer starts with the assets minted and either no order
\* or every listing created.
InitApi ==
    /\ \E n \in {0, MaxListing} :
          orders = ListedOrders(n) /\ assets = ListedAssets(n)
    /\ last = NoCall
    /\ LockIdle
    /\ RunIdle
    /\ ResyncIdle
    /\ api = <<>>
    /\ hl = [pc |-> "idle"]

NextApi ==
    \/ \E r \in Reqs, req \in ApiRequests, io \in RedisIOs : ApiAcquire(r, req, io)
    \/ \E r \in Reqs, io \in IOs : ApiBegin(r, io)
    \/ \E r \in Reqs, io \in TxIOs : ApiCommit(r, io)
    \/ \E r \in Reqs, io \in RedisIOs : ApiRelease(r, io)
    \/ \E k \in FullKeys : Expire(k)

\* The API requests alone.
SpecApi == InitApi /\ [][NextApi]_vars

\* The logs of the scanner beside the API: those of one transaction.
RaceLogs == {lg \in Logs : lg.TxHash = "t1"}

\* One API request beside the scanner.
NextRace ==
    \/ \E req \in ApiRequests, io \in RedisIOs : ApiAcquire("r1", req, io)
    \/ \E io \in IOs : ApiBegin("r1", io)
    \/ \E io \in TxIOs : ApiCommit("r1", io)
    \/ \E io \in RedisIOs : ApiRelease("r1", io)
    \/ \E lg \in RaceLogs, io \in IOs : ScanRead(lg, io)
    \/ \E io \in IOs : ScanWrite(io)
    \/ \E lg \in RaceLogs : ScanListed(lg)

\* The API requests and the scanner's handlers on the same tables.
SpecRace == InitApi /\ [][NextRace]_vars

(***************************************************************************)
(* Claims.                                                                 *)
(***************************************************************************)

\* C1: terminal-state monotonicity. No handler application takes a listing's
\* stored status from SUCCESS to CANCELED or from CANCELED to SUCCESS (stated
\* here for the applications in which no database call fails).
C1_TerminalMonotonicity ==
    [][\A l \in Listings :
          (last'.op = "handleLog" /\ last'.io = NoFailure) =>
            /\ ~(StatusOf(orders, l) = OrderStatusSuccess
                   /\ StatusOf(orders', l) = OrderStatusCanceled)
            /\ ~(StatusOf(orders, l) = OrderStatusCanceled
                   /\ StatusOf(orders', l) = OrderStatusSuccess)]_vars

\* C2: a Listed log handled for a listing whose row has a terminal status
\* leaves that status as it was.
C2_ListedKeepsTerminal ==
    [][\A l \in Listings :
          (/\ StatusOf(orders, l) \in Terminal
           /\ last'.op = "handleLog"
           /\ last'.io = NoFailure
           /\ last'.lg \in ListedLogs
           /\ last'.lg.Topics[2] = l)
          => StatusOf(orders', l) = StatusOf(orders, l)]_vars

\* C3: one Listed log and one terminal log of a listing, each applied once
\* to the empty table, leave the same row content whichever came first.
C3_OrderIndependence ==
    (last.op = "pair" /\ last.applied \in {<<"Listed", "Terminal">>,
                                           <<"Terminal", "Listed">>})
    => {Content(r) : r \in orders}
         = {Content(r) : r \in ChainOrder(last.listed, last.terminal)}

\* C4: idempotence. After a handler has run without error, running the same
\* handler on the same log again without error leaves every row as it is.
C4_Idempotence ==
    (last.op = "handleLog" /\ last.err = "nil")
    => \A io \in IOsFor(last.lg) :
          LET again == handleLog(orders, last.lg, io)
          IN  again.err = "nil" => again.orders = orders

\* C4 restricted to second applications whose GetByID does not fail.
C4_IdempotenceWhenReadsSucceed ==
    (last.op = "handleLog" /\ last.err = "nil")
    => \A io \in IOsFor(last.lg) :
          LET again == handleLog(orders, last.lg, io)
          IN  (again.err = "nil" /\ ~io.getFails) => again.orders = orders

\* C8: at most one row per listing_id, and an Upsert for a listing id that has
\* a row does not add a row.
C8_OneRowPerListing ==
    /\ \A r1, r2 \in orders : r1.listing_id = r2.listing_id => r1 = r2
    /\ (last.op = "Upsert" /\ last.had) => Cardinality(orders) = last.rows

C8_Witness ==
    /\ last.op = "Upsert" /\ last.had /\ last.err = "nil"
    /\ Cardinality(orders) = 2
    /\ \E r \in orders :
          r.listing_id = last.o.ListingID /\ r.status = last.o.Status
            /\ r.tx_hash = last.o.TxHash /\ r.order_id = 1

\* C9: an Upsert of an order with listing id L leaves every row of another
\* listing id as it was.
C9_UpsertKeyedByListing ==
    [][\A r \in orders :
          (last'.op = "Upsert" /\ r.listing_id # last'.o.ListingID)
          => r \in orders']_vars

\* C10: a Cancelled (Sold) log handled without error for a listing id that
\* has no row leaves a placeholder row for that listing id: status CANCELED
\* (SUCCESS and the buyer), the log's tx hash, everything else empty or zero.
C10_PlaceholderCreated ==
    [][(/\ last'.op = "handleLog"
        /\ last'.lg \in CancelledLogs \cup SoldLogs
        /\ last'.err = "nil"
        /\ RowsOf(orders, last'.lg.Topics[2]) = {})
       => \E r \in orders' :
             /\ r.listing_id = last'.lg.Topics[2]
             /\ r.tx_hash = Hex(last'.lg.TxHash)
             /\ r.status = (IF last'.lg \in SoldLogs THEN OrderStatusSuccess
                            ELSE OrderStatusCanceled)
             /\ r.buyer = (IF last'.lg \in SoldLogs
                           THEN Hex(last'.lg.Topics[3]) ELSE "")
             /\ r.seller = "" /\ r.nft_address = "" /\ r.nft_name = ""
             /\ r.url = "" /\ r.token_id = 0 /\ r.amount = 0
             /\ r.price = "0" /\ r.deleted = 0]_vars

\* C5: lock mutual exclusion. At most one handle per key is held (acquired,
\* not released, not expired), the key then stores that handle's value, and an
\* Acquire on a key that exists never succeeds: when Redis answers, it fails
\* with ErrLockNotAcquired.
C5_MutualExclusion ==
    /\ \A h1, h2 \in Held : h1.key = h2.key => h1 = h2
    /\ \A h \in Held : redis[h.key] = h.value
    /\ (last.op = "Acquire" /\ last.existed) =>
          /\ last.result # "ok"
          /\ last.io.replied => last.result = "ErrLockNotAcquired"

C5_Witness ==
    /\ last.op = "Acquire" /\ last.existed /\ last.io.replied
    /\ last.result = "ErrLockNotAcquired"
    /\ \E h \in Held : h.key = last.key /\ h.caller # last.caller

\* C6: Release deletes the key exactly when the stored value equals the
\* handle's value; a Release through a stale handle leaves the key with the
\* value of the holder that acquired it after the expiry.
C6_ReleaseOnlyOwnValue ==
    (last.op = "Release") =>
        redis[last.lock.key] =
            (IF last.io.executed /\ last.before = last.lock.value
             THEN NoKey ELSE last.before)

C6_Witness ==
    /\ last.op = "Release" /\ last.io.executed
    /\ held[last.lock] = "expired"
    /\ \E h \in Held :
          /\ h.key = last.lock.key /\ h.caller # last.lock.caller
          /\ redis[h.key] = h.value /\ last.before = h.value

\* C7: watermark monotonicity. No step of Run lowers lastScanned.
C7_WatermarkMonotone == [][lastScanned' >= lastScanned]_vars

\* A sub-range skipped at batch size 1, after the halvings of its tick, with
\* the watermark moved to its end.
C7_Witness ==
    /\ last.op = "Batch" /\ last.outcome = "limit" /\ last.size = 1
    /\ lastScanned = last.to /\ lastScanned > last.watermark
    /\ last.watermark >= 2


\* The columns a Sold or Cancelled log does not carry.
Frame(r) ==
    [seller |-> r.seller, nft_address |-> r.nft_address,
     token_id |-> r.token_id, amount |-> r.amount, price |-> r.price,
     url |-> r.url, nft_name |-> r.nft_name, deleted |-> r.deleted]

\* C11: a Sold (Cancelled) log handled for a listing id that has a row
\* leaves seller, nft_address, token_id, amount, price, url, nft_name and
\* deleted of that row as they were (and, for Cancelled, the buyer).
C11_FoundFrame ==
    [][\A r \in orders :
          (/\ last'.op = "handleLog"
           /\ last'.lg \in CancelledLogs \cup SoldLogs
           /\ r.listing_id = last'.lg.Topics[2])
          => \E r2 \in orders' :
                /\ r2.listing_id = r.listing_id
                /\ Frame(r2) = Frame(r)
                /\ last'.lg \in CancelledLogs => r2.buyer = r.buyer]_vars

\* C11 restricted to the runs whose GetByID does not fail.
C11_FoundFrameWhenReadsSucceed ==
    [][\A r \in orders :
          (/\ last'.op = "handleLog"
           /\ last'.lg \in CancelledLogs \cup SoldLogs
           /\ ~last'.io.getFails
           /\ r.listing_id = last'.lg.Topics[2])
          => \E r2 \in orders' :
                /\ r2.listing_id = r.listing_id
                /\ Frame(r2) = Frame(r)
                /\ last'.lg \in CancelledLogs => r2.buyer = r.buyer]_vars

\* The table the live loop leaves when it starts with an empty table at head
\* s - 1 and processes the blocks s..t with every call succeeding.
LiveTable(s, t) == Dispatch({}, RangeLogs(s, t), 1, 0, NoFailure)

\* The pass that has just returned re-scanned a window the live loop had
\* fully processed: every block of the window was covered by a live query
\* that succeeded, and the table was what that processing leaves.
ReplayedWindow ==
    /\ last.op = "ResyncRecent" /\ last.err = "nil" /\ last.latest > 0
    /\ \A b \in last.first..last.latest :
          b \in DOMAIN live /\ live[b] = "ok"
    /\ lastScanned = last.latest
    /\ \E s \in 1..last.first : last.before = LiveTable(s, last.latest)

\* C12: a ResyncRecent pass that returns nil over a window the live loop
\* has fully processed leaves every order row as it was.
C12_ReplayNoOp == ReplayedWindow => orders = last.before

\* C12 restricted to the passes that skip no block and in which no handler
\* returns an error.
C12_ReplayNoOpWhenNothingFails ==
    (ReplayedWindow /\ last.skipped = {} /\ ~last.failed)
    => orders = last.before

C12_CleanReplayReached ==
    /\ ReplayedWindow /\ last.skipped = {} /\ ~last.failed
    /\ last.first = 1 /\ last.latest = 3

\* Whether a log is a well-formed marketplace event of listing l.
EventOf(lg, l) ==
    /\ lg \in ListedLogs \cup CancelledLogs \cup SoldLogs
    /\ lg.Topics[2] = l

\* The blocks that hold the events of listing l, and these events in chain
\* order.
EventBlocks(l) ==
    {b \in 1..MaxHead : \E i \in 1..Len(ChainLogs(b)) : EventOf(ChainLogs(b)[i], l)}

ListingLogs(l) ==
    SelectSeq(RangeLogs(1, MaxHead), LAMBDA lg : EventOf(lg, l))

\* The content of the rows of listing l.
ContentOf(tbl, l) == {Content(r) : r \in RowsOf(tbl, l)}

\* The pass that has just returned nil covered every event of listing l, one
\* of which the live loop had skipped.
RepairedGap(l) ==
    /\ last.op = "ResyncRecent" /\ last.err = "nil" /\ last.latest > 0
    /\ EventBlocks(l) # {}
    /\ EventBlocks(l) \subseteq last.first..last.latest
    /\ \E b \in EventBlocks(l) : b \in DOMAIN live /\ live[b] = "skipped"

\* C13: after a ResyncRecent pass that returns nil over a window holding
\* every event of a listing, some of them skipped by the live loop, the
\* listing's row has the status, buyer and listing fields that its events
\* applied in chain order give.
C13_GapRepaired ==
    \A l \in Listings :
        RepairedGap(l)
        => ContentOf(orders, l)
             = ContentOf(Dispatch({}, ListingLogs(l), 1, 0, NoFailure), l)

\* C13 restricted to the passes that skip no block and in which no handler
\* returns an error.
C13_GapRepairedWhenNothingFails ==
    \A l \in Listings :
        (RepairedGap(l) /\ last.skipped = {} /\ ~last.failed)
        => ContentOf(orders, l)
             = ContentOf(Dispatch({}, ListingLogs(l), 1, 0, NoFailure), l)

C13_CleanRepairReached ==
    /\ RepairedGap(1) /\ last.skipped = {} /\ ~last.failed
    /\ RowsOf(last.before, 1) = {}

\* The asset row of listing l's token, token l of 0xNFT.
AssetOf(tbl, l) == CHOOSE r \in ByNFT(tbl, "0xNFT", l) : TRUE

\* C14: the scanner's GetByID followed by Upsert in handleCancelled and
\* handleSold is serialized with an API status update of the same listing:
\* the row the Upsert is computed from is the row committed when the Upsert
\* runs, so no committed API transition is overwritten from a stale snapshot.
C14_NoStaleWriteBack ==
    [][(last'.op = "ScanWrite" /\ last'.got.err = "nil" /\ last'.err = "nil")
       => last'.got = last'.now]_vars

\* C15: a status update asking for the other terminal status is rejected and
\* changes neither table, and whatever the interleaving of the requests no
\* order moves from SUCCESS to CANCELED or from CANCELED to SUCCESS.
C15_TerminalRejected ==
    [][/\ \A l \in Listings :
             (StatusOf(orders, l) \in Terminal /\ StatusOf(orders', l) \in Terminal)
             => StatusOf(orders', l) = StatusOf(orders, l)
       /\ (/\ last'.op = "ApiBegin"
           /\ api[last'.r].req.kind = "status"
           /\ ~last'.io.getFails
           /\ StatusOf(orders, api[last'.r].req.listing)
                \in Terminal \ {api[last'.r].req.status})
          => api'[last'.r].result = "rejected"
       /\ \A r \in DOMAIN api' :
             (/\ api'[r].result = "rejected"
              /\ last'.op \in {"ApiBegin", "ApiCommit", "ApiRelease"}
              /\ last'.r = r)
             => (orders' = orders /\ assets' = assets)]_vars

\* A request is rejected after it acquired the lock while the request that
\* made the order terminal had not yet released it.
C15_RejectedBesideHolder ==
    \E r1, r2 \in DOMAIN api :
        /\ r1 # r2
        /\ api[r1].req.kind = "status" /\ api[r2].req.kind = "status"
        /\ api[r1].req.listing = api[r2].req.listing
        /\ api[r1].pc = "unlock" /\ api[r1].result = "ok"
        /\ api[r2].result = "rejected"

\* C16: the order row and the asset row of a listing are committed together:
\* a LISTED order has its asset deleted, a CANCELED one restored, a SUCCESS
\* one restored and owned by the buyer, and with no order the asset is as
\* minted.
C16_BothOrNeither ==
    \A l \in Listings :
        LET st == StatusOf(orders, l)
            as == AssetOf(assets, l)
        IN  /\ st = "none" => (as.deleted = 0 /\ as.owner = "0xAA")
            /\ st = OrderStatusListed => as.deleted = 1
            /\ st = OrderStatusCanceled => as.deleted = 0
            /\ st = OrderStatusSuccess
                 => (/\ as.deleted = 0
                     /\ as.owner = (CHOOSE r \in RowsOf(orders, l) : TRUE).buyer)

\* A sale is rolled back after its upsert succeeded and its asset update
\* failed.
C16_RolledBack ==
    /\ last.op = "ApiCommit" /\ last.io.assetFails
    /\ last.order.Status = OrderStatusSuccess
    /\ StatusOf(orders, last.order.ListingID) = OrderStatusListed

\* C17: an API request whose Acquire returns ErrLockNotAcquired writes
\* nothing: orders and nft_assets are unchanged, the lock key keeps the value
\* of its holder, and the request ends with a conflict.
C17_ConflictWritesNothing ==
    [][(last'.op = "ApiAcquire" /\ last'.result = "ErrLockNotAcquired")
       => /\ orders' = orders /\ assets' = assets
          /\ redis' = redis
          /\ redis[api'[last'.r].lock.key] # NoKey
          /\ api'[last'.r].result = "conflict"
          /\ api'[last'.r].pc = "done"]_vars

\* The second request conflicts with the first, which is in its transaction.
C17_ConflictReached ==
    /\ last.op = "ApiAcquire" /\ last.result = "ErrLockNotAcquired"
    /\ \E r \in DOMAIN api :
          /\ api[r].pc = "tx"
          /\ api[r].lock.key = api[last.r].lock.key
          /\ redis[api[r].lock.key] = api[r].lock.value

\* C18: once the context passed to Run is cancelled, Run returns at some
\* point, from the select or from inside the batch loop.
C18_CancelReturns == ctxDone ~> (runPc = "returned")

\* Run has returned on ctx.Done() after the batch loop was left on an error
\* with blocks of its range still to scan.
C18_ReturnedFromBatch ==
    /\ runPc = "returned" /\ ctxDone /\ last.op = "RunReturn"
    /\ from <= latest

\* C19: while the context is not cancelled Run never stops polling, whatever
\* head read or FilterLogs call fails, the first head read included.
C19_KeepsPolling == runPc = "returned" => ctxDone

\* C20: no two nft_assets rows are bound to the same (nft_address, token_id)
\* pair, and SoftDeleteByNFT, RestoreByNFT and UpdateOwnerByNFT each change
\* at most one row.
C20_BindingUnique ==
    /\ \A r1, r2 \in assets :
          (/\ r1.nft_address # {} /\ r1.token_id # {}
           /\ r1.nft_address = r2.nft_address /\ r1.token_id = r2.token_id)
          => r1 = r2
    /\ last.op \in {"SoftDeleteByNFT", "RestoreByNFT", "UpdateOwnerByNFT"}
         => last.changed <= 1

\* C21: no row is physically deleted: a listing id that has an order row
\* keeps one and an asset id that exists keeps existing, whatever handler or
\* store operation runs.
C21_NeverDeleted ==
    [][/\ \A r \in orders : RowsOf(orders', r.listing_id) # {}
       /\ \A a \in assets : \E b \in assets' : b.id = a.id]_vars

\* An Upsert has rewritten the row of a listing beside the row of another
\* listing.
C21_RewrittenInPlace ==
    /\ last.op = "Upsert" /\ last.err = "nil" /\ last.had
    /\ last.rows = Cardinality(orders)
    /\ \A l \in Listings : RowsOf(orders, l) # {}

\* C22: Run starts its watermark at the head it reads first, and every
\* FilterLogs query of the live loop starts at the watermark plus one, above
\* that first head.
C22_NoBackfill ==
    [][/\ (last'.op = "RunStart" /\ last'.ok) => lastScanned' = last'.head
       /\ last'.op = "Batch"
            => /\ last'.from = lastScanned + 1
               /\ \A b \in DOMAIN live : live[b] = "start" => last'.from > b]_vars

\* Run started at head 2 and its first query, for block 3, succeeded: the
\* Listed log of block 1 was never fetched.
C22_StartedAboveGenesis ==
    /\ last.op = "Batch" /\ last.outcome = "ok" /\ last.from = 3
    /\ 2 \in DOMAIN live /\ live[2] = "start"
    /\ \A r \in orders : r.seller = ""

\* C23: a tick whose head is at or below the watermark issues no FilterLogs
\* query and applies no handler: the batch loop is not entered and the
\* watermark, the scanned sub-ranges and the orders are as before.
C23_IdleTick ==
    [][(last'.op = "Tick" /\ last'.ok /\ last'.head <= lastScanned)
       => /\ runPc' = "wait"
          /\ lastScanned' = lastScanned
          /\ live' = live
          /\ orders' = orders]_vars

\* A tick read a head below the watermark after blocks had been scanned.
C23_HeadBelowWatermark ==
    /\ last.op = "Tick" /\ last.ok /\ last.head < last.watermark
    /\ lastScanned = last.watermark
    /\ orders # {} /\ runPc = "wait"

\* C24: a limit error on the sub-range starting at block f with batch size
\* b > 1 leaves f and the watermark and sets the batch size to floor(b / 2);
\* at batch size 1 the block f alone is skipped, the watermark becomes f and
\* the loop goes on with f + 1. No handler runs in either case.
C24_HalveOrSkip ==
    [][(last'.op = "Batch" /\ last'.outcome = "limit")
       => /\ orders' = orders
          /\ IF batchSize > 1
             THEN /\ batchSize' = batchSize \div 2
                  /\ from' = from /\ lastScanned' = lastScanned
                  /\ live' = live /\ runPc' = "batch"
             ELSE /\ lastScanned' = from /\ from' = from + 1
                  /\ batchSize' = 1
                  /\ live' = Mark(live, from, from, "skipped")
                  /\ runPc' = IF from + 1 <= latest THEN "batch" ELSE "wait"]_vars

\* Block 2 has been skipped at batch size 1 and the loop goes on with block 3.
C24_SkippedOneBlock ==
    /\ last.op = "Batch" /\ last.outcome = "limit" /\ last.size = 1
    /\ last.from = 2 /\ last.to = 2 /\ lastScanned = 2 /\ from = 3
    /\ runPc = "batch" /\ live[2] = "skipped"

\* The logs lgs handled one after the other with every database call
\* succeeding.
RECURSIVE HandleAll(_, _)
HandleAll(tbl, lgs) ==
    IF lgs = <<>> THEN tbl
    ELSE HandleAll(handleLog(tbl, Head(lgs), NoFailure).orders, Tail(lgs))

\* C25: when the handler of one log of a sub-range returns an error, the logs
\* after it are handled all the same and the watermark moves to the end of
\* the sub-range.
C25_ErrorKeepsBatch ==
    [][(last'.op = "Batch" /\ last'.outcome = "ok" /\ last'.failAt > 0)
       => LET lgs    == RangeLogs(last'.from, last'.to)
              n      == last'.failAt
              before == HandleAll(orders, SubSeq(lgs, 1, n - 1))
              failed == handleLog(before, lgs[n], last'.io)
          IN  /\ orders' = HandleAll(failed.orders, SubSeq(lgs, n + 1, Len(lgs)))
              /\ lastScanned' = last'.to
              /\ from' = last'.to + 1]_vars

\* The Upsert of the Listed log of block 1 failed; the Sold log of block 2,
\* of the same sub-range, was handled and the watermark is at its end.
C25_LaterLogHandled ==
    /\ last.op = "Batch" /\ last.outcome = "ok"
    /\ last.from = 1 /\ last.to >= 2 /\ last.failAt = 1 /\ last.io.upsertFails
    /\ StatusOf(orders, 1) = OrderStatusSuccess
    /\ lastScanned = last.to

\* C26: the sub-ranges the live loop completes, processed or skipped, follow
\* one another without gap or overlap in increasing block order: each starts
\* right after the last block completed (or after the head read at start)
\* and ends at or after its first block, so no block is dispatched twice.
C26_SubRangesInOrder ==
    [][(/\ last'.op = "Batch"
        /\ \/ last'.outcome = "ok"
           \/ last'.outcome = "limit" /\ last'.size = 1)
       => /\ last'.from <= last'.to
          /\ \A b \in DOMAIN live : b < last'.from
          /\ (last'.from - 1) \in DOMAIN live
          /\ DOMAIN live' = DOMAIN live \cup (last'.from..last'.to)]_vars

\* After a start at head 0, block 1 was skipped and the blocks 2 and 3 were
\* processed, each as a sub-range of its own.
C26_ThreeSubRanges ==
    /\ last.op = "Batch" /\ last.outcome = "ok"
    /\ last.from = 3 /\ last.to = 3
    /\ DOMAIN live = 0..3
    /\ live[0] = "start" /\ live[1] = "skipped" /\ live[2] = "ok"
    /\ live[3] = "ok"

\* The topics a log of an event has: the signature and the indexed arguments
\* (Listed: listingId, seller, nft; Cancelled: listingId; Sold: listingId,
\* buyer).
TopicsOf(sig) ==
    CASE sig = "Listed" -> 4
      [] sig = "Cancelled" -> 2
      [] sig = "Sold" -> 3
      [] OTHER -> 0

\* A log without topics, of another event, or with too few topics.
Unrecognized(lg) ==
    \/ Len(lg.Topics) = 0
    \/ lg.Topics[1] \notin {"Listed", "Cancelled", "Sold"}
    \/ Len(lg.Topics) < TopicsOf(lg.Topics[1])

\* C27: handleLog on a log without topics, of another event or with too few
\* topics returns nil and leaves the orders as they are.
C27_UnrecognizedIgnored ==
    [][(last'.op = "handleLog" /\ Unrecognized(last'.lg))
       => (last'.err = "nil" /\ orders' = orders)]_vars

\* A log of another event was handled while the table held a row.
C27_OtherEventHandled ==
    /\ last.op = "handleLog" /\ Len(last.lg.Topics) > 0
    /\ last.lg.Topics[1] = "Other"
    /\ last.err = "nil" /\ orders # {}

\* The row a Listed log describes, but for order_id.
ListedRow(r, lg) ==
    /\ r.listing_id = lg.Topics[2]
    /\ r.seller = Hex(lg.Topics[3])
    /\ r.nft_address = Hex(lg.Topics[4])
    /\ r.token_id = lg.Data.TokenId
    /\ r.amount = lg.Data.Amount
    /\ r.price = BigString(lg.Data.Price)
    /\ r.tx_hash = Hex(lg.TxHash)
    /\ r.status = OrderStatusListed
    /\ r.buyer = ""

\* C28: handleListed that returns nil for a listing with no row or with a
\* non-terminal row leaves a row of that listing with the event's seller,
\* nft_address, token_id, amount, tx_hash and price, status LISTED and an
\* empty buyer.
C28_ListedRow ==
    [][(/\ last'.op = "handleLog" /\ last'.lg \in ListedLogs
        /\ last'.err = "nil"
        /\ StatusOf(orders, last'.lg.Topics[2]) \notin Terminal)
       => \E r \in orders' : ListedRow(r, last'.lg)]_vars

\* C28 restricted to the Listed logs whose transaction hash no row of another
\* listing holds.
C28_ListedRowWhenHashIsNew ==
    [][(/\ last'.op = "handleLog" /\ last'.lg \in ListedLogs
        /\ last'.err = "nil"
        /\ StatusOf(orders, last'.lg.Topics[2]) \notin Terminal
        /\ \A r \in orders : r.tx_hash = Hex(last'.lg.TxHash)
                               => r.listing_id = last'.lg.Topics[2])
       => \E r \in orders' : ListedRow(r, last'.lg)]_vars

\* C29: every order row the scanner's handlers leave, starting from the
\* empty table, has status LISTED, SUCCESS or CANCELED, never INIT, LOCKED,
\* SETTLING or FAILED.
C29_ScannerStatuses ==
    \A r \in orders :
        /\ r.status \in {OrderStatusListed, OrderStatusSuccess, OrderStatusCanceled}
        /\ r.status \notin {OrderStatusInit, OrderStatusLocked,
                            OrderStatusSettling, OrderStatusFailed}

\* The handlers have left one listing LISTED and the other CANCELED.
C29_RowsOfEachHandler ==
    /\ last.op = "handleLog" /\ last.lg \in ListedLogs /\ last.err = "nil"
    /\ StatusOf(orders, last.lg.Topics[2]) = OrderStatusListed
    /\ \E r \in orders : r.status = OrderStatusCanceled
    /\ \E r \in orders : r.status = OrderStatusListed /\ r.buyer = ""
                           /\ r.order_id = 1

\* C30: a step of ResyncRecent leaves the live loop's lastScanned (and its
\* other locals) as they are, and the window of a pass is set by the head it
\* reads and its lookback argument alone, also while Run is in its loop.
C30_ResyncApartFromWatermark ==
    [][(last'.op \in {"ResyncStart", "ResyncBatch", "ResyncRecent"})
       => /\ lastScanned' = lastScanned /\ from' = from /\ latest' = latest
          /\ batchSize' = batchSize /\ runPc' = runPc /\ live' = live
          /\ last'.op = "ResyncStart"
               => /\ rs'.latest = last'.head
                  /\ rs'.from =
                       IF /\ last'.lookbackBlocks > 0
                          /\ last'.lookbackBlocks < last'.head
                       THEN last'.head - last'.lookbackBlocks + 1 ELSE 1]_vars

\* A pass has started while Run was inside its batch loop, over a window
\* that does not start after the watermark.
C30_StartedBesideBatch ==
    /\ last.op = "ResyncStart" /\ runPc = "batch"
    /\ rs.pc = "batch" /\ rs.from # lastScanned + 1
    /\ lastScanned > 0

\* The blocks of the window [latest - lookback + 1, latest] that the chain
\* has (block 0, the genesis block, holds no log).
Window(lookback, head) == {b \in 1..head : b >= head - lookback + 1}

\* C31: the blocks a pass sets out to query, from its first FromBlock to the
\* head it read, are exactly those of the window [latest - lookback + 1,
\* latest], for every lookback.
C31_WindowExact ==
    [][last'.op = "ResyncStart"
       => rs'.from..rs'.latest = Window(last'.lookbackBlocks, last'.head)]_vars

\* C31 restricted to the passes called with lookback > 0.
C31_WindowExactWhenPositive ==
    [][(last'.op = "ResyncStart" /\ last'.lookbackBlocks > 0)
       => rs'.from..rs'.latest = Window(last'.lookbackBlocks, last'.head)]_vars

\* The row of the table with the given id, as a set.
AssetByID(tbl, id) == {r \in tbl : r.id = id}

\* The rows a sale completion finds: listed (deleted = 1) and owned by
\* somebody other than the buyer.
SoldRows(tbl, nftAddress, tokenID, newOwner) ==
    {r \in ByNFT(tbl, nftAddress, tokenID) : r.deleted = 1 /\ r.owner # newOwner}

\* C32: UpdateOwnerByNFT on a listed asset of the seller leaves the row either
\* as it was (the statement failed) or with the buyer as owner and deleted = 0;
\* the row is never seen with the buyer and deleted = 1, nor with the seller
\* and deleted = 0.
C32_OwnerAndFlagTogether ==
    [][last'.op = "UpdateOwnerByNFT"
       => \A r \in SoldRows(assets, last'.args[1], last'.args[2], last'.args[3]) :
            \A q \in AssetByID(assets', r.id) :
                \/ q = r
                \/ q = [r EXCEPT !.owner = last'.args[3], !.deleted = 0]]_vars

\* A sale completion went through: the listed row of the seller is now the
\* buyer's, undeleted.
C32_SaleCompleted ==
    /\ last.op = "UpdateOwnerByNFT"
    /\ last.ok
    /\ \E r \in SoldRows(last.was, last.args[1], last.args[2], last.args[3]) :
          [r EXCEPT !.owner = last.args[3], !.deleted = 0] \in assets

\* Whether every list the query can return for the owner holds the row id.
ListedFor(tbl, owner, limit, id) ==
    \A out \in ListByOwnerRows(tbl, owner, limit) : \E a \in out : a.ID = id

\* Whether no list the query can return for the owner holds the row id.
UnlistedFor(tbl, owner, limit, id) ==
    \A out \in ListByOwnerRows(tbl, owner, limit) : \A a \in out : a.ID # id

\* Whether the owner's undeleted rows fit in the limit of the query.
FitsLimit(tbl, owner, limit) ==
    Cardinality({r \in tbl : r.owner = owner /\ r.deleted = 0})
        <= (IF limit <= 0 THEN 50 ELSE limit)

\* What the list shows after a store call, for the rows the call changed;
\* cut says whether the LIMIT of the query is taken into account.
ListFollowsStore(cut) ==
    /\ (last'.op = "ListByOwner" /\ last'.ok)
          => \A a \in last'.out : a.Owner = last'.owner /\ a.Deleted = 0
    /\ (last'.op = "SoftDeleteByNFT" /\ last'.ok)
          => \A r \in last'.was, limit \in Limits :
                UnlistedFor(assets', r.owner, limit, r.id)
    /\ (last'.op = "RestoreByNFT" /\ last'.ok)
          => \A r \in last'.was, limit \in Limits :
                (cut => FitsLimit(assets', r.owner, limit))
                   => ListedFor(assets', r.owner, limit, r.id)
    /\ (last'.op = "UpdateOwnerByNFT" /\ last'.ok)
          => \A r \in last'.was, limit \in Limits :
                /\ (cut => FitsLimit(assets', last'.args[3], limit))
                      => ListedFor(assets', last'.args[3], limit, r.id)
                /\ r.owner # last'.args[3]
                      => UnlistedFor(assets', r.owner, limit, r.id)

C34_SecondReleaseNoEffect ==
    [][(last'.op = "Release" /\ held[last'.lock] = "released")
       => redis' = redis]_vars

\* A handle was released again while another holder had the key, and the key
\* still has that holder's value.
C34_ReleasedAgainUnderAnother ==
    /\ last.op = "Release" /\ last.io.executed
    /\ held[last.lock] = "released"
    /\ last.before # NoKey /\ last.before # last.lock.value
    /\ redis[last.lock.key] = last.before
    /\ \E h \in Held : h.key = last.lock.key /\ h.caller # last.lock.caller

\* C35: no value stays in a key forever, whether its holder releases it, its
\* Release fails or it never calls Release: the key expires. And an Acquire
\* that reaches Redis while the key is absent succeeds and holds the key.
C35_ExpiresThenAcquirable ==
    /\ \A v \in 1..MaxAcquire :
          (redis[FullKey(ExpiringName)] = v) ~> (redis[FullKey(ExpiringName)] # v)
    /\ [][(last'.op = "Acquire" /\ ~last'.existed /\ last'.io.replied)
          => /\ last'.result = "ok"
             /\ redis'[last'.key] = issued'
             /\ \E h \in handles' \ handles : held'[h] = "held"]_vars

\* A holder's key expired without a Release of its handle having run, and a
\* later Acquire by the other caller has the key.
C35_AcquiredAfterExpiry ==
    /\ last.op = "Acquire" /\ last.result = "ok"
    /\ last.key = FullKey(ExpiringName)
    /\ \E h \in DOMAIN held :
          /\ held[h] = "expired" /\ h.key = last.key
          /\ h.caller # last.caller
    /\ redis[last.key] = issued

\* The columns of a row that only a Listed event carries.
ListedColumns(r) ==
    [seller |-> r.seller, nft_address |-> r.nft_address,
     token_id |-> r.token_id, amount |-> r.amount, price |-> r.price]

\* A row with the columns of a Listed event filled in.
FullRow(r) == r.seller # "" /\ r.nft_address # ""

\* C36: a Cancelled or Sold log whose lookup fails with an error other than
\* "no row" while the listing has a full row leaves the row's seller,
\* nft_address, token_id, amount and price as they are.
C36_NoPlaceholderOverFullRow ==
    [][(/\ last'.op = "handleLog"
        /\ last'.lg \in CancelledLogs \cup SoldLogs
        /\ last'.io.getFails)
       => \A r \in RowsOf(orders, last'.lg.Topics[2]) :
             FullRow(r) =>
                \E q \in RowsOf(orders', r.listing_id) :
                    ListedColumns(q) = ListedColumns(r)]_vars

\* The blocks the watermark has passed since the head Run read first.
Passed ==
    {b \in 1..lastScanned : \E h \in DOMAIN live : live[h] = "start" /\ h < b}

\* C37: every block between the head read at the start and the watermark was
\* returned by a successful FilterLogs query or skipped on its own at batch
\* size 1 after a limit error; the watermark moves over a block only in such
\* a step, and a FilterLogs error of another kind leaves it where it is.
C37_NoSilentGap ==
    /\ [](\A b \in Passed : b \in DOMAIN live /\ live[b] \in {"ok", "skipped"})
    /\ [][/\ \A b \in (lastScanned + 1)..lastScanned' :
                runPc # "init" =>
                   /\ last'.op = "Batch"
                   /\ \/ last'.outcome = "ok" /\ b \in last'.from..last'.to
                      \/ /\ last'.outcome = "limit" /\ last'.size = 1
                         /\ b = last'.from /\ b = last'.to
          /\ (last'.op = "Batch" /\ last'.outcome = "error")
                => lastScanned' = lastScanned /\ live' = live]_vars

\* A FilterLogs error of another kind, after the watermark has passed a block
\* that was returned and a block that was skipped; the failed sub-range
\* starts right above the watermark.
C37_ErrorAboveCoveredAndSkipped ==
    /\ last.op = "Batch" /\ last.outcome = "error"
    /\ last.from = lastScanned + 1 /\ last.to >= last.from
    /\ \E b \in Passed : live[b] = "ok"
    /\ \E b \in Passed : live[b] = "skipped"

\* What is left of a tick's batch loop: the blocks still to scan, and the
\* halvings still possible on the current one.
LoopVariant(f, size, head) == (head + 1 - f) * (maxBatchBlocks + 1) + size

\* C38: the batch loop of a tick ends. Every iteration that stays in the loop
\* lowers a non-negative measure, so the loop makes finitely many queries
\* whatever their outcomes, and it is left at some point. It is left by an
\* error other than the limit error, or with the watermark at the head read
\* by the tick: the latter when every query fails with the limit error.
C38_BatchLoopEnds ==
    /\ (runPc = "batch") ~> (runPc # "batch")
    /\ [][(runPc = "batch" /\ last'.op = "Batch")
          => /\ runPc' = "batch"
                => /\ LoopVariant(from', batchSize', latest')
                        < LoopVariant(from, batchSize, latest)
                   /\ LoopVariant(from', batchSize', latest') > 0
             /\ (runPc' # "batch" /\ last'.outcome # "error")
                => lastScanned' = latest
             /\ (runPc' # "batch" /\ last'.outcome = "error")
                => lastScanned' = lastScanned]_vars

\* A tick's loop has ended on limit errors alone, every block of the tick
\* skipped: the watermark is at the head the tick read, two blocks up.
C38_EndedOnLimitErrors ==
    /\ runPc = "wait" /\ last.op = "Batch" /\ last.outcome = "limit"
    /\ lastScanned = latest
    /\ \E b \in DOMAIN live : live[b] = "start" /\ b + 2 = latest
    /\ \A b \in Passed : live[b] = "skipped"

\* The handler step just taken applied a well-formed Sold log of the listing.
SoldApplied(l) ==
    /\ last'.op = "handleLog"
    /\ Len(last'.lg.Topics) >= 3
    /\ last'.lg.Topics[1] = "Sold"
    /\ last'.lg.Topics[2] = l

\* The row had a buyer before the step.
HadBuyer(r) == \E q \in orders : q.order_id = r.order_id /\ q.buyer # ""

\* C39: a row the scanner handlers left with status SUCCESS has a buyer, and
\* a row has a buyer only from a Sold event of its listing: the buyer of a row
\* becomes non-empty only in a step that applies a Sold log of that listing.
C39_BuyerMarksSale ==
    /\ [](\A r \in orders : r.status = OrderStatusSuccess => r.buyer # "")
    /\ [][\A r \in orders' :
            r.buyer # "" => HadBuyer(r) \/ SoldApplied(r.listing_id)]_vars

\* C40: in the batch loop of a tick the batch size is between 1 and
\* maxBatchBlocks and no iteration raises it (a limit error above size 1
\* lowers it); the tick that enters the loop sets it to maxBatchBlocks; and
\* the range of every FilterLogs query starts at or below its end, ends at
\* or below the head the tick read, and holds no more blocks than the batch
\* size at the time of the query.
C40_BatchSizeAndRanges ==
    /\ [](runPc = "batch" => batchSize \in 1..maxBatchBlocks)
    /\ [][(runPc = "batch" /\ last'.op = "Batch")
          => /\ batchSize' <= batchSize
             /\ (last'.outcome = "limit" /\ batchSize > 1)
                => batchSize' < batchSize
             /\ last'.size = batchSize
             /\ last'.from = from
             /\ last'.from <= last'.to
             /\ last'.to <= latest
             /\ last'.to - last'.from + 1 <= batchSize]_vars
    /\ [][(runPc # "batch" /\ runPc' = "batch")
          => batchSize' = maxBatchBlocks]_vars

\* A tick has entered the loop with the full batch size after an earlier
\* tick had come down to size 1 and skipped a block.
C40_ResetAfterShrunkTick ==
    /\ runPc = "batch" /\ last.op = "Tick"
    /\ batchSize = maxBatchBlocks
    /\ \E b \in DOMAIN live : live[b] = "skipped"

====
